---- MODULE Spec2Model ----
(***************************************************************************)
(* Drone-Delivery: the delivery orchestrator over a relational store.      *)
(*                                                                         *)
(* The committed rows of the tables orders, jobs and drones are the        *)
(* variables orders, jobs and drones.  Every request runs on a worker; the *)
(* variable tx holds, per worker, the operation it executes, its           *)
(* arguments, the aggregates it has loaded and mutated in memory and the   *)
(* row locks its transaction holds.  When a call returns, the variable     *)
(* last holds its response (the call, the step it returned from and its    *)
(* error code, "ok" for nil) until the handler has written it, which is    *)
(* the next step: writing a response touches none of the rows, so it       *)
(* commutes with the steps of the other workers.                           *)
(*                                                                         *)
(* Transactions are begun with db.BeginTxx(ctx, nil): the store's default  *)
(* isolation (READ COMMITTED).  A plain SELECT reads the committed row and *)
(* takes no lock; an UPDATE takes the row lock until commit or rollback    *)
(* and waits while another transaction holds it; writes become visible at  *)
(* commit.  An UPDATE and the SELECT that follows it in the same           *)
(* transaction form one step (acquiring a lock commutes to the right of    *)
(* the other workers' steps).                                              *)
(***************************************************************************)
EXTENDS Integers, Sequences, FiniteSets, TLC

MaxOrders == 2
MaxJobs == 2
\* the breaker's failure threshold and cooldown, and the last tick of the clock
Threshold == 2
Cooldown == 1
MaxTime == 4
\* the bulkhead's pool size; the rate limiter's maxRequests and window, and the
\* number of requests the limiter is sent
Capacity == 2
MaxRequests == 1
Window == 2
MaxCalls == 3

Workers == {"w1", "w2"}
Drones == {"dA", "dB"}
Users == {"u1", "u2"}
Locations == {"locA", "locB"}
Keys == {"k1", "k2"}
Routes == {"/orders", "/orders/:id"}
\* two more concurrent callers than the bulkhead has slots
Callers == 1..(Capacity + 2)
IPs == {"ip1", "ip2"}
\* one more concurrent request in the middleware chain than the bulkhead has slots
Passers == 1..(Capacity + 1)

Nil == "nil"
NoOrderID == 0
NoJobID == 0

OrderStatuses ==
  {"PENDING", "ASSIGNED", "PICKED_UP", "DELIVERED", "FAILED", "WITHDRAWN", "AWAITING_HANDOFF"}
DroneStatuses == {"IDLE", "EN_ROUTE_PICKUP", "EN_ROUTE_DELIVERY", "BROKEN"}
JobStatuses == {"OPEN", "RESERVED", "COMPLETED", "CANCELLED"}

ErrNotFound == "NOT_FOUND"
ErrInvalidTransition == "INVALID_TRANSITION"
ErrForbidden == "FORBIDDEN"
ErrConflict == "CONFLICT"
ErrInternal == "INTERNAL"
ErrorCodes == {ErrNotFound, ErrInvalidTransition, ErrForbidden, ErrConflict, ErrInternal}
ErrUnauthorized == "UNAUTHORIZED"
ErrValidation == "VALIDATION"
ErrOutOfZone == "OUT_OF_ZONE"
\* every code a domain error carries
DomainCodes == ErrorCodes \union {ErrUnauthorized, ErrValidation, ErrOutOfZone}
\* the codes of the answers of the resilience middlewares
CodeServiceUnavailable == "SERVICE_UNAVAILABLE"
CodeRateLimited == "RATE_LIMITED"
CircuitOpenAsUnavailable == "SERVICE_UNAVAILABLE"
CodeCircuitOpen == "CIRCUIT_OPEN"

VARIABLES orders, jobs, drones, tx, last, agg, req, idem, breakers, now, bulk, rl,
          chain

vars == <<orders, jobs, drones, tx, last, agg, req, idem, breakers, now, bulk,
         rl, chain>>
db == <<orders, jobs, drones>>
\* the aggregate a method is called on, and the state of the HTTP middleware
mw == <<agg, req, idem, breakers, now, bulk, rl, chain>>

NoOrder == [status |-> "NONE", drone |-> Nil, owner |-> Nil]
NoJob == [order |-> NoOrderID, status |-> "NONE", drone |-> Nil]
NoDrone == [status |-> "ABSENT", order |-> NoOrderID]

OrderIDs == 1..MaxOrders
JobIDs == 1..MaxJobs

----------------------------------------------------------------------------
(* Aggregates: every method returns the error code ("" for nil) and the    *)
(* aggregate as the method leaves it.                                      *)

Ok(v) == [err |-> "", v |-> v]
Fail(code, v) == [err |-> code, v |-> v]

NewOrder(submittedBy) == [status |-> "PENDING", drone |-> Nil, owner |-> submittedBy]

IsTerminal(s) == s \in {"DELIVERED", "FAILED", "WITHDRAWN"}

Withdraw(o) ==
  IF o.status # "PENDING" THEN Fail(ErrInvalidTransition, o)
  ELSE Ok([o EXCEPT !.status = "WITHDRAWN"])

\* an Assign that accepts only a PENDING order
AssignPendingOnly(o, droneID) ==
  IF o.status # "PENDING" THEN Fail(ErrInvalidTransition, o)
  ELSE Ok([o EXCEPT !.status = "ASSIGNED", !.drone = droneID])

Assign(o, droneID) ==
  IF o.status # "PENDING" /\ o.status # "AWAITING_HANDOFF" THEN Fail(ErrInvalidTransition, o)
  ELSE Ok([o EXCEPT !.status = "ASSIGNED", !.drone = droneID])

\* a MarkPickedUp that does not look at the status
MarkPickedUpFromAny(o) == Ok([o EXCEPT !.status = "PICKED_UP"])

MarkPickedUp(o) ==
  IF o.status # "ASSIGNED" THEN Fail(ErrInvalidTransition, o)
  ELSE Ok([o EXCEPT !.status = "PICKED_UP"])

MarkDelivered(o) ==
  IF o.status # "PICKED_UP" THEN Fail(ErrInvalidTransition, o)
  ELSE Ok([o EXCEPT !.status = "DELIVERED", !.drone = Nil])

MarkFailed(o) ==
  IF o.status # "PICKED_UP" THEN Fail(ErrInvalidTransition, o)
  ELSE Ok([o EXCEPT !.status = "FAILED", !.drone = Nil])

AwaitHandoff(o) ==
  IF o.status # "ASSIGNED" /\ o.status # "PICKED_UP" THEN Fail(ErrInvalidTransition, o)
  ELSE Ok([o EXCEPT !.status = "AWAITING_HANDOFF", !.drone = Nil])

UpdateOrigin(o, loc) ==
  IF IsTerminal(o.status) THEN Fail(ErrInvalidTransition, o)
  ELSE Ok([o EXCEPT !.origin = loc])

UpdateDestination(o, loc) ==
  IF IsTerminal(o.status) THEN Fail(ErrInvalidTransition, o)
  ELSE Ok([o EXCEPT !.dest = loc])

NewDrone == [status |-> "IDLE", order |-> NoOrderID]

DroneReserve(d, orderID) ==
  IF d.status # "IDLE" THEN Fail(ErrInvalidTransition, d)
  ELSE Ok([d EXCEPT !.status = "EN_ROUTE_PICKUP", !.order = orderID])

StartDelivery(d) ==
  IF d.status # "EN_ROUTE_PICKUP" THEN Fail(ErrInvalidTransition, d)
  ELSE Ok([d EXCEPT !.status = "EN_ROUTE_DELIVERY"])

\* a GoIdle that keeps the current order
GoIdleKeepsOrder(d) == [d EXCEPT !.status = "IDLE"]

GoIdle(d) == [d EXCEPT !.status = "IDLE", !.order = NoOrderID]

\* MarkBroken: v is the drone afterwards, event the order it was carrying.
MarkBroken(d) ==
  IF d.status = "BROKEN" THEN [err |-> ErrConflict, v |-> d, event |-> NoOrderID]
  ELSE [err |-> "", v |-> [d EXCEPT !.status = "BROKEN", !.order = NoOrderID], event |-> d.order]

\* a MarkFixed that does not look at the status
MarkFixedFromAny(d) == Ok([d EXCEPT !.status = "IDLE", !.order = NoOrderID])

MarkFixed(d) ==
  IF d.status # "BROKEN" THEN Fail(ErrInvalidTransition, d)
  ELSE Ok([d EXCEPT !.status = "IDLE", !.order = NoOrderID])

NewJob(orderID) == [order |-> orderID, status |-> "OPEN", drone |-> Nil]

JobReserve(j, droneID) ==
  IF j.status # "OPEN" THEN Fail(ErrConflict, j)
  ELSE Ok([j EXCEPT !.status = "RESERVED", !.drone = droneID])

JobComplete(j) ==
  IF j.status # "RESERVED" THEN Fail(ErrInvalidTransition, j)
  ELSE Ok([j EXCEPT !.status = "COMPLETED"])

\* a Cancel that does not look at the status
JobCancelFromAny(j) == Ok([j EXCEPT !.status = "CANCELLED", !.drone = Nil])

JobCancel(j) ==
  IF j.status = "COMPLETED" \/ j.status = "CANCELLED" THEN Fail(ErrInvalidTransition, j)
  ELSE Ok([j EXCEPT !.status = "CANCELLED", !.drone = Nil])

----------------------------------------------------------------------------
(* Repositories: reads of the committed rows.                              *)

OrderGetByID(id) == IF id \in 1..Len(orders) THEN orders[id] ELSE NoOrder
JobGetByID(id) == IF id \in 1..Len(jobs) THEN jobs[id] ELSE NoJob
DroneGetByID(id) == drones[id]

\* SELECT ... WHERE order_id = $1 AND status != 'CANCELLED'
\*   ORDER BY created_at DESC LIMIT 1  (0 when no row matches)
ActiveJobsOf(orderID) ==
  {i \in 1..Len(jobs) : jobs[i].order = orderID /\ jobs[i].status # "CANCELLED"}
Max(S) == CHOOSE x \in S : \A y \in S : y <= x
JobGetByOrderID(orderID) ==
  IF ActiveJobsOf(orderID) = {} THEN NoJobID ELSE Max(ActiveJobsOf(orderID))

\* rows matched by UPDATE jobs ... WHERE order_id = $1
\*   AND status NOT IN ('COMPLETED', 'CANCELLED')
CancellableJobsOf(orderID) ==
  {i \in 1..Len(jobs) : jobs[i].order = orderID /\ jobs[i].status \notin {"COMPLETED", "CANCELLED"}}

\* row matched by UPDATE orders ... WHERE id = $1
\*   AND status NOT IN ('COMPLETED', 'CANCELLED')
OrderCancelMatches(id) ==
  id \in 1..Len(orders) /\ orders[id].status \notin {"COMPLETED", "CANCELLED"}

\* UPDATE jobs SET status, reserved_by_drone_id ... WHERE id = :id and
\* UPDATE orders SET status, assigned_drone_id, ... WHERE id = :id: the
\* aggregate in memory overwrites the row (submitted_by is not written)
WriteJob(js, id, j) == [js EXCEPT ![id].status = j.status, ![id].drone = j.drone]
WriteOrder(os, id, o) == [os EXCEPT ![id].status = o.status, ![id].drone = o.drone]

----------------------------------------------------------------------------
(* Workers and row locks.                                                  *)

IdleTx ==
  [op |-> "idle", pc |-> "idle",
   job |-> NoJobID, order |-> NoOrderID, drone |-> Nil, user |-> Nil, delivered |-> FALSE,
   j |-> NoJob, o |-> NoOrder, d |-> NoDrone,
   lj |-> {}, lo |-> {}, ld |-> {}]

\* the response of a call: what was called, the step it returned from, the code
Response(t, code) ==
  [op |-> t.op, at |-> t.pc, outcome |-> code,
   job |-> t.job, order |-> t.order, drone |-> t.drone, delivered |-> t.delivered]
NoResponse == Response(IdleTx, "")

\* no response is waiting to be written
Ready == last = NoResponse

\* worker p can take a call; the call of worker p is at step pc of op
Free(p) == Ready /\ tx[p].pc = "idle"
At(p, op, pc) == Ready /\ tx[p].op = op /\ tx[p].pc = pc

JobLocked(p, id) == \E q \in Workers \ {p} : id \in tx[q].lj
OrderLocked(p, id) == \E q \in Workers \ {p} : id \in tx[q].lo
DroneLocked(p, id) == \E q \in Workers \ {p} : id \in tx[q].ld

\* a return that keeps what the call has written so far (the statements run
\* on the connection pool instead of the transaction)
ReturnWithoutRollback(p, t, code) ==
  /\ tx' = [tx EXCEPT ![p] = IdleTx]
  /\ last' = Response(t, code)
  /\ UNCHANGED mw
  /\ jobs' = IF t.j # NoJob /\ t.job \in 1..Len(jobs) THEN WriteJob(jobs, t.job, t.j) ELSE jobs
  /\ orders' = IF t.o # NoOrder /\ t.order \in 1..Len(orders)
                THEN WriteOrder(orders, t.order, t.o) ELSE orders
  /\ UNCHANGED drones

\* the call of worker p returns an error from step t.pc of t: the deferred
\* tx.Rollback() releases the locks and nothing is written
Return(p, t, code) ==
  /\ tx' = [tx EXCEPT ![p] = IdleTx]
  /\ last' = Response(t, code)
  /\ UNCHANGED <<db, mw>>

\* the call of worker p returns nil after tx.Commit()
Committed(p, t) ==
  /\ tx' = [tx EXCEPT ![p] = IdleTx]
  /\ last' = Response([t EXCEPT !.pc = "commit"], "ok")
  /\ UNCHANGED mw

\* the call of worker p goes on with t
Goto(p, t) ==
  /\ tx' = [tx EXCEPT ![p] = t]
  /\ UNCHANGED <<db, last, mw>>

\* the handler writes the response of the call that returned
Respond ==
  /\ ~Ready
  /\ last' = NoResponse
  /\ UNCHANGED <<db, tx, mw>>

\* no method has been called on the aggregate under test
NoCall == [method |-> "none", before |-> NoOrder, after |-> NoOrder, err |-> ""]

\* a request as the middleware sees it: where it is in the chain, its route,
\* the caller ("sub"), the Idempotency-Key header, whether its body binds,
\* and the response written for it (status, body)
\* a response body: the error code ("" for none) and the order it shows
Body(code, orderID) == [code |-> code, order |-> orderID]
NoBody == Body("absent", NoOrderID)

NoRequest ==
  [phase |-> "none", route |-> "", user |-> Nil, key |-> "", valid |-> FALSE,
   ran |-> FALSE, probe |-> FALSE, status |-> 0, body |-> NoBody]

\* callers and Idempotency-Key headers that contain the separator of the store's
\* keys: the token's name is any non-empty form value, the header any string
Names == {"a", "a:b"}
HeaderKeys == {"c", "b:c"}

\* idempotencyKey: fmt.Sprintf("idempotency:%s:%s", userID, key)
idempotencyKey(userID, key) == "idempotency:" \o userID \o ":" \o key

\* the idempotency store, empty: no key of the key space holds a value
StoreKeys ==
  {idempotencyKey(u, k) : u \in Users \union Names, k \in Keys \union HeaderKeys}
NoEntries == [k \in StoreKeys |-> NoBody]

\* newCircuitBreaker: the breaker LoadOrStore creates for a path
newCircuitBreaker == [state |-> "CLOSED", failures |-> 0, lastFailureTime |-> 0]

\* a caller with no request at the bulkhead
NoAdmission == [phase |-> "none", outcome |-> "", status |-> 0]

\* make(chan struct{}, maxConcurrent): the semaphore holds no token
NoBulkhead == [sem |-> 0, calls |-> [c \in Callers |-> NoAdmission]]

\* a worker with no request at the rate limiter
NoAllow == [pc |-> "idle", ip |-> "", at |-> 0, member |-> 0, count |-> 0, err |-> FALSE,
            result |-> "none", status |-> 0]

\* the limiter's store holds no key; n counts the requests received, admitted
\* records the requests Allow let through and limited those answered 429, by caller
NoLimiter ==
  [zset |-> [ip \in IPs |-> {}], calls |-> [p \in Workers |-> NoAllow], n |-> 0,
   admitted |-> [ip \in IPs |-> {}], limited |-> [ip \in IPs |-> {}]]

\* a worker with no request in the middleware chain
NoPassage ==
  [i |-> 0, role |-> "", user |-> Nil, key |-> "", status |-> 0, code |-> "", seen |-> <<>>,
   slot |-> FALSE, slots |-> 0, reads |-> 0, writes |-> 0]
NoChain == [c \in Passers |-> NoPassage]

\* no request is being served, nothing is stored
MwInit ==
  /\ agg = NoCall
  /\ req = [p \in Workers |-> NoRequest]
  /\ idem = NoEntries
  /\ breakers = [r \in Routes |-> newCircuitBreaker]
  /\ now = 0
  /\ bulk = NoBulkhead
  /\ rl = NoLimiter
  /\ chain = NoChain

DbInit ==
  /\ orders = <<>>
  /\ jobs = <<>>
  /\ drones = [d \in Drones |-> NoDrone]
  /\ tx = [p \in Workers |-> IdleTx]
  /\ last = NoResponse

Init == DbInit /\ MwInit

----------------------------------------------------------------------------
(* CreateOrderAndJob: two INSERTs and the commit.                          *)

\* the order committed without its job
CreateOrderOnly(p, user) ==
  /\ Free(p)
  /\ Len(orders) < MaxOrders
  /\ Len(jobs) < MaxJobs
  /\ orders' = Append(orders, NewOrder(user))
  /\ Committed(p, [IdleTx EXCEPT !.op = "Create", !.user = user, !.order = Len(orders) + 1])
  /\ UNCHANGED <<jobs, drones>>

CreateOrderAndJob(p, user) ==
  /\ Free(p)
  /\ Len(orders) < MaxOrders
  /\ Len(jobs) < MaxJobs
  /\ orders' = Append(orders, NewOrder(user))
  /\ jobs' = Append(jobs, NewJob(Len(orders) + 1))
  /\ Committed(p, [IdleTx EXCEPT !.op = "Create", !.user = user,
                                 !.order = Len(orders) + 1, !.job = Len(jobs) + 1])
  /\ UNCHANGED drones

----------------------------------------------------------------------------
(* Heartbeat (drone service, no transaction): EnsureExists reads the drone *)
(* and upserts a new one when the read fails, UpdateLocation, Update.      *)

Heartbeat(p, droneID) ==
  /\ Free(p)
  /\ LET d == DroneGetByID(droneID)
         t == [IdleTx EXCEPT !.op = "Heartbeat", !.drone = droneID]
     IN IF d = NoDrone THEN Goto(p, [t EXCEPT !.pc = "upsert", !.d = NewDrone])
        ELSE Goto(p, [t EXCEPT !.pc = "update", !.d = d])

HeartbeatUpsert(p) ==
  /\ At(p, "Heartbeat", "upsert")
  /\ ~DroneLocked(p, tx[p].drone)
  /\ drones' = [drones EXCEPT ![tx[p].drone] = tx[p].d]
  /\ tx' = [tx EXCEPT ![p].pc = "update"]
  /\ UNCHANGED <<orders, jobs, last, mw>>

\* an update that writes the drone as New() made it
HeartbeatUpdateAsNew(p) ==
  /\ At(p, "Heartbeat", "update")
  /\ ~DroneLocked(p, tx[p].drone)
  /\ drones' = [drones EXCEPT ![tx[p].drone] = NewDrone]
  /\ Committed(p, tx[p])
  /\ UNCHANGED <<orders, jobs>>

HeartbeatUpdate(p) ==
  /\ At(p, "Heartbeat", "update")
  /\ ~DroneLocked(p, tx[p].drone)
  /\ drones' = [drones EXCEPT ![tx[p].drone] = tx[p].d]
  /\ Committed(p, tx[p])
  /\ UNCHANGED <<orders, jobs>>

----------------------------------------------------------------------------
(* ReserveJobAndAssign: job, then order, then drone, then commit.          *)

ReserveJobAndAssign(p, jobID, droneID) ==
  /\ Free(p)
  /\ LET j == JobGetByID(jobID)
         t == [IdleTx EXCEPT !.op = "Reserve", !.pc = "job", !.job = jobID, !.drone = droneID]
         r == JobReserve(j, droneID)
     IN IF j = NoJob THEN Return(p, t, ErrNotFound)
        ELSE IF r.err # "" THEN Return(p, t, r.err)
        ELSE Goto(p, [t EXCEPT !.pc = "updJob", !.j = r.v, !.order = j.order])

\* the order step with the drone's status checked before the order's
ReserveOrderDroneFirst(p) ==
  /\ At(p, "Reserve", "updJob")
  /\ ~JobLocked(p, tx[p].job)
  /\ LET o == OrderGetByID(tx[p].order)
         d == DroneGetByID(tx[p].drone)
         t == [tx[p] EXCEPT !.pc = "order", !.lj = {tx[p].job}]
         r == Assign(o, tx[p].drone)
     IN IF d = NoDrone THEN Return(p, [tx[p] EXCEPT !.pc = "job"], ErrInternal)
        ELSE IF DroneReserve(d, tx[p].order).err # ""
          THEN Return(p, [t EXCEPT !.pc = "drone"], DroneReserve(d, tx[p].order).err)
        ELSE IF o = NoOrder THEN Return(p, t, ErrNotFound)
        ELSE IF r.err # "" THEN Return(p, t, r.err)
        ELSE Goto(p, [t EXCEPT !.pc = "updOrder", !.o = r.v])

\* UPDATE jobs (reserved_by_drone_id REFERENCES drones(id)), then SELECT the order
ReserveOrder(p) ==
  /\ At(p, "Reserve", "updJob")
  /\ ~JobLocked(p, tx[p].job)
  /\ LET o == OrderGetByID(tx[p].order)
         t == [tx[p] EXCEPT !.pc = "order", !.lj = {tx[p].job}]
         r == Assign(o, tx[p].drone)
     IN IF DroneGetByID(tx[p].drone) = NoDrone THEN Return(p, [tx[p] EXCEPT !.pc = "job"], ErrInternal)
        ELSE IF o = NoOrder THEN Return(p, t, ErrNotFound)
        ELSE IF r.err # "" THEN Return(p, t, r.err)
        ELSE Goto(p, [t EXCEPT !.pc = "updOrder", !.o = r.v])

ReserveDrone(p) ==
  /\ At(p, "Reserve", "updOrder")
  /\ ~OrderLocked(p, tx[p].order)
  /\ LET d == DroneGetByID(tx[p].drone)
         t == [tx[p] EXCEPT !.pc = "drone", !.lo = {tx[p].order}]
         r == DroneReserve(d, tx[p].order)
     IN IF d = NoDrone THEN Return(p, t, ErrNotFound)
        ELSE IF r.err # "" THEN Return(p, t, r.err)
        ELSE Goto(p, [t EXCEPT !.pc = "updDrone", !.d = r.v])

ReserveCommit(p) ==
  /\ At(p, "Reserve", "updDrone")
  /\ ~DroneLocked(p, tx[p].drone)
  /\ jobs' = WriteJob(jobs, tx[p].job, tx[p].j)
  /\ orders' = WriteOrder(orders, tx[p].order, tx[p].o)
  /\ drones' = [drones EXCEPT ![tx[p].drone] = tx[p].d]
  /\ Committed(p, tx[p])

----------------------------------------------------------------------------
(* GrabOrder: order, then drone, then commit.                              *)

\* the first step without the check of the assigned drone
GrabOrderAnyDrone(p, orderID, droneID) ==
  /\ Free(p)
  /\ LET o == OrderGetByID(orderID)
         t == [IdleTx EXCEPT !.op = "Grab", !.pc = "order", !.order = orderID, !.drone = droneID]
         r == MarkPickedUp(o)
     IN IF o = NoOrder THEN Return(p, t, ErrNotFound)
        ELSE IF r.err # "" THEN Return(p, t, r.err)
        ELSE Goto(p, [t EXCEPT !.pc = "updOrder", !.o = r.v])

GrabOrder(p, orderID, droneID) ==
  /\ Free(p)
  /\ LET o == OrderGetByID(orderID)
         t == [IdleTx EXCEPT !.op = "Grab", !.pc = "order", !.order = orderID, !.drone = droneID]
         r == MarkPickedUp(o)
     IN IF o = NoOrder THEN Return(p, t, ErrNotFound)
        ELSE IF o.drone = Nil \/ o.drone # droneID THEN Return(p, t, ErrForbidden)
        ELSE IF r.err # "" THEN Return(p, t, r.err)
        ELSE Goto(p, [t EXCEPT !.pc = "updOrder", !.o = r.v])

GrabDrone(p) ==
  /\ At(p, "Grab", "updOrder")
  /\ ~OrderLocked(p, tx[p].order)
  /\ LET d == DroneGetByID(tx[p].drone)
         t == [tx[p] EXCEPT !.pc = "drone", !.lo = {tx[p].order}]
         r == StartDelivery(d)
     IN IF d = NoDrone THEN Return(p, t, ErrNotFound)
        ELSE IF r.err # "" THEN Return(p, t, r.err)
        ELSE Goto(p, [t EXCEPT !.pc = "updDrone", !.d = r.v])

GrabCommit(p) ==
  /\ At(p, "Grab", "updDrone")
  /\ ~DroneLocked(p, tx[p].drone)
  /\ orders' = WriteOrder(orders, tx[p].order, tx[p].o)
  /\ drones' = [drones EXCEPT ![tx[p].drone] = tx[p].d]
  /\ Committed(p, tx[p])
  /\ UNCHANGED jobs

----------------------------------------------------------------------------
(* CompleteDelivery: order, drone, then the job of the order (best         *)
(* effort: skipped when no job is found or Complete fails), then commit.   *)

CompleteDelivery(p, orderID, droneID, delivered) ==
  /\ Free(p)
  /\ LET o == OrderGetByID(orderID)
         t == [IdleTx EXCEPT !.op = "Complete", !.pc = "order", !.order = orderID,
                             !.drone = droneID, !.delivered = delivered]
         r == IF delivered THEN MarkDelivered(o) ELSE MarkFailed(o)
     IN IF o = NoOrder THEN Return(p, t, ErrNotFound)
        ELSE IF o.drone = Nil \/ o.drone # droneID THEN Return(p, t, ErrForbidden)
        ELSE IF r.err # "" THEN Return(p, t, r.err)
        ELSE Goto(p, [t EXCEPT !.pc = "updOrder", !.o = r.v])

CompleteDrone(p) ==
  /\ At(p, "Complete", "updOrder")
  /\ ~OrderLocked(p, tx[p].order)
  /\ LET d == DroneGetByID(tx[p].drone)
         t == [tx[p] EXCEPT !.pc = "drone", !.lo = {tx[p].order}]
     IN IF d = NoDrone THEN Return(p, t, ErrNotFound)
        ELSE Goto(p, [t EXCEPT !.pc = "updDrone", !.d = GoIdle(d)])

\* UPDATE drones, then SELECT the job; without a job to complete, commit
CompleteJob(p) ==
  /\ At(p, "Complete", "updDrone")
  /\ ~DroneLocked(p, tx[p].drone)
  /\ LET id == JobGetByOrderID(tx[p].order)
         r == JobComplete(JobGetByID(id))
     IN IF id # NoJobID /\ r.err = ""
        THEN Goto(p, [tx[p] EXCEPT !.pc = "updJob", !.ld = {tx[p].drone}, !.job = id, !.j = r.v])
        ELSE /\ orders' = WriteOrder(orders, tx[p].order, tx[p].o)
             /\ drones' = [drones EXCEPT ![tx[p].drone] = tx[p].d]
             /\ Committed(p, tx[p])
             /\ UNCHANGED jobs

CompleteCommit(p) ==
  /\ At(p, "Complete", "updJob")
  /\ ~JobLocked(p, tx[p].job)
  /\ orders' = WriteOrder(orders, tx[p].order, tx[p].o)
  /\ drones' = [drones EXCEPT ![tx[p].drone] = tx[p].d]
  /\ jobs' = WriteJob(jobs, tx[p].job, tx[p].j)
  /\ Committed(p, tx[p])

----------------------------------------------------------------------------
(* CancelOrderAndJob: two conditional UPDATEs and the commit.  An UPDATE   *)
(* that matches no row makes the repository return an error, which the     *)
(* orchestrator wraps as Internal.                                         *)

CancelOrderAndJob(p, orderID, submittedBy) ==
  /\ Free(p)
  /\ Goto(p, [IdleTx EXCEPT !.op = "Cancel", !.pc = "updOrder",
                            !.order = orderID, !.user = submittedBy])

\* orderRepo.Cancel: SET status = 'CANCELLED', submitted_by = $2
OrderCancel(o, submittedBy) == [o EXCEPT !.status = "CANCELLED", !.owner = submittedBy]

\* the UPDATE orders is issued while another transaction holds the lock of
\* the row it matches: the statement waits for that transaction to end
CancelWait(p) ==
  /\ At(p, "Cancel", "updOrder")
  /\ OrderCancelMatches(tx[p].order)
  /\ OrderLocked(p, tx[p].order)
  /\ Goto(p, [tx[p] EXCEPT !.pc = "waitOrder"])

\* the UPDATE orders runs, its WHERE clause evaluated on the committed row
CancelOrder(p) ==
  /\ At(p, "Cancel", "updOrder") \/ At(p, "Cancel", "waitOrder")
  /\ IF OrderCancelMatches(tx[p].order)
     THEN /\ ~OrderLocked(p, tx[p].order)
          /\ Goto(p, [tx[p] EXCEPT !.pc = "updJobs", !.lo = {tx[p].order},
                                   !.o = OrderCancel(orders[tx[p].order], tx[p].user)])
     ELSE Return(p, [tx[p] EXCEPT !.pc = "order"], ErrInternal)

\* jobRepo.CancelByOrderID: SET status = 'CANCELLED', reserved_by_drone_id = NULL
JobCancelRow(j) == [j EXCEPT !.status = "CANCELLED", !.drone = Nil]

CancelJobs(p) ==
  /\ At(p, "Cancel", "updJobs")
  /\ LET rows == CancellableJobsOf(tx[p].order)
     IN IF rows = {}
        THEN Return(p, [tx[p] EXCEPT !.pc = "jobs"], ErrInternal)
        ELSE /\ \A i \in rows : ~JobLocked(p, i)
             /\ orders' = [orders EXCEPT ![tx[p].order] = tx[p].o]
             /\ jobs' = [i \in 1..Len(jobs) |->
                           IF i \in rows THEN JobCancelRow(jobs[i]) ELSE jobs[i]]
             /\ Committed(p, tx[p])
             /\ UNCHANGED drones

----------------------------------------------------------------------------
(* HandleDroneBroken: drone, then (when the drone carried an order) the    *)
(* order and a new job, then commit.                                       *)

HandleDroneBroken(p, droneID) ==
  /\ Free(p)
  /\ LET d == DroneGetByID(droneID)
         t == [IdleTx EXCEPT !.op = "Broken", !.pc = "drone", !.drone = droneID]
         r == MarkBroken(d)
     IN IF d = NoDrone THEN Return(p, t, ErrNotFound)
        ELSE IF r.err # "" THEN Return(p, t, r.err)
        ELSE Goto(p, [t EXCEPT !.pc = "updDrone", !.d = r.v, !.order = r.event])

\* UPDATE drones; event.OrderID == nil: commit; else AwaitHandoffWithTx reads the order
BrokenOrder(p) ==
  /\ At(p, "Broken", "updDrone")
  /\ ~DroneLocked(p, tx[p].drone)
  /\ IF tx[p].order = NoOrderID
     THEN /\ drones' = [drones EXCEPT ![tx[p].drone] = tx[p].d]
          /\ Committed(p, tx[p])
          /\ UNCHANGED <<orders, jobs>>
     ELSE LET o == OrderGetByID(tx[p].order)
              t == [tx[p] EXCEPT !.pc = "order", !.ld = {tx[p].drone}]
              r == AwaitHandoff(o)
          IN IF o = NoOrder THEN Return(p, t, ErrNotFound)
             ELSE IF r.err # "" THEN Return(p, t, r.err)
             ELSE Goto(p, [t EXCEPT !.pc = "updOrder", !.o = r.v])

\* UPDATE orders, INSERT INTO jobs, commit
BrokenCommit(p) ==
  /\ At(p, "Broken", "updOrder")
  /\ ~OrderLocked(p, tx[p].order)
  /\ Len(jobs) < MaxJobs
  /\ drones' = [drones EXCEPT ![tx[p].drone] = tx[p].d]
  /\ orders' = WriteOrder(orders, tx[p].order, tx[p].o)
  /\ jobs' = Append(jobs, NewJob(tx[p].order))
  /\ Committed(p, [tx[p] EXCEPT !.job = Len(jobs) + 1])

----------------------------------------------------------------------------
(* MarkDroneFixed (admin service, no transaction): read, MarkFixed, Update *)

MarkDroneFixed(p, droneID) ==
  /\ Free(p)
  /\ LET d == DroneGetByID(droneID)
         t == [IdleTx EXCEPT !.op = "Fixed", !.pc = "drone", !.drone = droneID]
         r == MarkFixed(d)
     IN IF d = NoDrone THEN Return(p, t, ErrNotFound)
        ELSE IF r.err # "" THEN Return(p, t, r.err)
        ELSE Goto(p, [t EXCEPT !.pc = "update", !.d = r.v])

FixedUpdate(p) ==
  /\ At(p, "Fixed", "update")
  /\ ~DroneLocked(p, tx[p].drone)
  /\ drones' = [drones EXCEPT ![tx[p].drone] = tx[p].d]
  /\ Committed(p, tx[p])
  /\ UNCHANGED <<orders, jobs>>

----------------------------------------------------------------------------
(* Lock waits.  A worker whose next statement is an UPDATE of a row locked *)
(* by another transaction waits for it; when the waits form a cycle the    *)
(* store aborts a statement of the cycle with an error, which the          *)
(* orchestrator wraps as Internal and answers by rolling back.             *)

\* the workers whose locks keep p's next statement waiting
Blockers(p) ==
  LET t == tx[p]
  IN {q \in Workers \ {p} :
        \/ t.pc = "updJob" /\ t.job \in tx[q].lj
        \/ t.pc \in {"updOrder", "waitOrder"} /\ t.order \in tx[q].lo
        \/ t.pc \in {"updDrone", "upsert", "update"} /\ t.drone \in tx[q].ld
        \/ t.pc = "updJobs" /\ CancellableJobsOf(t.order) \cap tx[q].lj # {}}

RECURSIVE WaitsOn(_, _, _)
WaitsOn(p, q, n) ==
  /\ n > 0
  /\ \E r \in Blockers(p) : r = q \/ WaitsOn(r, q, n - 1)

DeadlockAbort(p) ==
  /\ Ready
  /\ WaitsOn(p, p, Cardinality(Workers))
  /\ Return(p, tx[p], ErrInternal)

----------------------------------------------------------------------------
Step(p) ==
  \/ \E u \in Users : CreateOrderAndJob(p, u)
  \/ \E d \in Drones : Heartbeat(p, d)
  \/ HeartbeatUpsert(p)
  \/ HeartbeatUpdate(p)
  \/ \E j \in JobIDs, d \in Drones : ReserveJobAndAssign(p, j, d)
  \/ ReserveOrder(p)
  \/ ReserveDrone(p)
  \/ ReserveCommit(p)
  \/ \E o \in OrderIDs, d \in Drones : GrabOrder(p, o, d)
  \/ GrabDrone(p)
  \/ GrabCommit(p)
  \/ \E o \in OrderIDs, d \in Drones, b \in BOOLEAN : CompleteDelivery(p, o, d, b)
  \/ CompleteDrone(p)
  \/ CompleteJob(p)
  \/ CompleteCommit(p)
  \/ \E o \in OrderIDs, u \in Users : CancelOrderAndJob(p, o, u)
  \/ CancelOrder(p)
  \/ CancelJobs(p)
  \/ \E d \in Drones : HandleDroneBroken(p, d)
  \/ BrokenOrder(p)
  \/ BrokenCommit(p)
  \/ \E d \in Drones : MarkDroneFixed(p, d)
  \/ FixedUpdate(p)

\* one request at a time, the whole API: no statement waits for a lock
Solo == "w1"
Next == Step(Solo) \/ Respond

Spec == Init /\ [][Next]_vars

\* the orchestrated operations that contend for the rows of a job, its order
\* and its drone
Race(p) ==
  \/ \E u \in Users : CreateOrderAndJob(p, u)
  \/ \E d \in Drones : Heartbeat(p, d)
  \/ HeartbeatUpsert(p)
  \/ HeartbeatUpdate(p)
  \/ \E j \in JobIDs, d \in Drones : ReserveJobAndAssign(p, j, d)
  \/ ReserveOrder(p)
  \/ ReserveDrone(p)
  \/ ReserveCommit(p)
  \/ \E o \in OrderIDs, u \in Users : CancelOrderAndJob(p, o, u)
  \/ CancelWait(p)
  \/ CancelOrder(p)
  \/ CancelJobs(p)
  \/ \E d \in Drones : HandleDroneBroken(p, d)
  \/ BrokenOrder(p)
  \/ BrokenCommit(p)

\* concurrent requests
RaceNext == (\E p \in Workers : Race(p) \/ DeadlockAbort(p)) \/ Respond

RaceSpec == Init /\ [][RaceNext]_vars

----------------------------------------------------------------------------
(* Statement errors.  The store can fail a write (connection lost, context *)
(* cancelled): the repository returns the driver's error and the           *)
(* orchestrator wraps it as Internal and returns, which rolls back.        *)
(***************************************************************************)
\* orderRepo.Create or jobRepo.Create returns an error in CreateOrderAndJob
CreateOrderAndJobFails(p, user, write) ==
  /\ Free(p)
  /\ Len(orders) < MaxOrders
  /\ Len(jobs) < MaxJobs
  /\ Return(p, [IdleTx EXCEPT !.op = "Create", !.pc = write, !.user = user], ErrInternal)

\* jobRepo.Update returns an error in CompleteDelivery
CompleteJobFails(p) ==
  /\ At(p, "Complete", "updJob")
  /\ ~JobLocked(p, tx[p].job)
  /\ Return(p, [tx[p] EXCEPT !.pc = "job"], ErrInternal)

\* one request at a time, with writes that can fail
FaultNext ==
  \/ Step(Solo)
  \/ \E u \in Users, w \in {"order", "job"} : CreateOrderAndJobFails(Solo, u, w)
  \/ CompleteJobFails(Solo)
  \/ Respond

FaultSpec == Init /\ [][FaultNext]_vars

----------------------------------------------------------------------------
(* The Order aggregate on its own: an order as loaded from its row, and    *)
(* the methods of the aggregate called on it one after the other.          *)

\* the orders a row can hold: an assigned drone goes with ASSIGNED and
\* PICKED_UP, and stays on the row that orderRepository.Cancel overwrites
LoadedOrders ==
  {o \in [status : OrderStatuses \cup {"CANCELLED"}, drone : Drones \cup {Nil},
          owner : Users, origin : Locations, dest : Locations] :
     /\ o.status \in {"ASSIGNED", "PICKED_UP"} => o.drone # Nil
     /\ o.drone # Nil => o.status \in {"ASSIGNED", "PICKED_UP", "CANCELLED"}}

Called(method, r) ==
  /\ agg' = [method |-> method, before |-> agg.after, after |-> r.v, err |-> r.err]
  /\ UNCHANGED <<db, tx, last, req, idem, breakers, now, bulk, rl, chain>>

CallWithdraw == Called("Withdraw", Withdraw(agg.after))
CallAssign(droneID) == Called("Assign", Assign(agg.after, droneID))
CallMarkPickedUp == Called("MarkPickedUp", MarkPickedUp(agg.after))
CallMarkDelivered == Called("MarkDelivered", MarkDelivered(agg.after))
CallMarkFailed == Called("MarkFailed", MarkFailed(agg.after))
CallAwaitHandoff == Called("AwaitHandoff", AwaitHandoff(agg.after))
CallUpdateOrigin(loc) == Called("UpdateOrigin", UpdateOrigin(agg.after, loc))
CallUpdateDestination(loc) == Called("UpdateDestination", UpdateDestination(agg.after, loc))

OrderInit ==
  /\ DbInit
  /\ \E o \in LoadedOrders : agg = [NoCall EXCEPT !.before = o, !.after = o]
  /\ req = [p \in Workers |-> NoRequest]
  /\ idem = NoEntries
  /\ breakers = [r \in Routes |-> newCircuitBreaker]
  /\ now = 0
  /\ bulk = NoBulkhead
  /\ rl = NoLimiter
  /\ chain = NoChain

OrderNext ==
  \/ CallWithdraw
  \/ \E d \in Drones : CallAssign(d)
  \/ CallMarkPickedUp
  \/ CallMarkDelivered
  \/ CallMarkFailed
  \/ CallAwaitHandoff
  \/ \E l \in Locations : CallUpdateOrigin(l)
  \/ \E l \in Locations : CallUpdateDestination(l)

OrderSpec == OrderInit /\ [][OrderNext]_vars

----------------------------------------------------------------------------
(* The Idempotency middleware around POST /orders (PlaceOrder): Check,     *)
(* then the handler under c.Next(), then Set when the status is 2xx.  A    *)
(* worker keeps the response of its request until it takes the next one.   *)

StatusOK == 200
StatusCreated == 201
StatusBadRequest == 400

\* IdempotencyStore.Check: the bytes stored under (userID, key), found or not
Check(userID, key) ==
  [cached |-> idem[idempotencyKey(userID, key)],
   found |-> idem[idempotencyKey(userID, key)] # NoBody]

\* IdempotencyStore.Set: SETNX, the first value stored under the key stays
Set(userID, key, response) ==
  IF idem[idempotencyKey(userID, key)] = NoBody
  THEN [idem EXCEPT ![idempotencyKey(userID, key)] = response]
  ELSE idem

\* a Cacheable that admits every status
CacheableAlways(status) == TRUE

\* only responses in the success range are stored
Cacheable(status) == status >= 200 /\ status < 300

\* a request with an Idempotency-Key arrives: a stored response is written
\* out with status 200 and the chain is aborted, otherwise the chain goes on
IdemCheck(p, userID, key, valid) ==
  /\ req[p].phase \in {"none", "done"}
  /\ LET r == [NoRequest EXCEPT !.route = "/orders", !.user = userID, !.key = key, !.valid = valid]
         c == Check(userID, key)
     IN req' = [req EXCEPT ![p] =
                  IF c.found THEN [r EXCEPT !.phase = "done", !.status = StatusOK, !.body = c.cached]
                  ELSE [r EXCEPT !.phase = "next"]]
  /\ UNCHANGED <<db, tx, last, agg, idem, breakers, now, bulk, rl, chain>>

\* the handler: a body that does not bind is answered 400, otherwise the
\* order and its job are created and the order is answered 201
PlaceOrder(p) ==
  /\ req[p].phase = "next" /\ req[p].route = "/orders"
  /\ IF ~req[p].valid
     THEN /\ req' = [req EXCEPT ![p].phase = "after", ![p].ran = TRUE,
                                ![p].status = StatusBadRequest, ![p].body = Body("VALIDATION", NoOrderID)]
          /\ UNCHANGED <<orders, jobs>>
     ELSE /\ Len(orders) < MaxOrders
          /\ Len(jobs) < MaxJobs
          /\ orders' = Append(orders, NewOrder(req[p].user))
          /\ jobs' = Append(jobs, NewJob(Len(orders) + 1))
          /\ req' = [req EXCEPT ![p].phase = "after", ![p].ran = TRUE,
                                ![p].status = StatusCreated, ![p].body = Body("", Len(orders) + 1)]
  /\ UNCHANGED <<drones, tx, last, agg, idem, breakers, now, bulk, rl, chain>>

\* back in the middleware after c.Next()
IdemSet(p) ==
  /\ req[p].phase = "after" /\ req[p].route = "/orders"
  /\ idem' = IF Cacheable(req[p].status) THEN Set(req[p].user, req[p].key, req[p].body) ELSE idem
  /\ req' = [req EXCEPT ![p].phase = "done"]
  /\ UNCHANGED <<db, tx, last, agg, breakers, now, bulk, rl, chain>>

IdemStep(p) ==
  \/ \E u \in Users, k \in Keys, v \in BOOLEAN : IdemCheck(p, u, k, v)
  \/ PlaceOrder(p)
  \/ IdemSet(p)

\* one request at a time
IdemSoloNext == IdemStep(Solo)
IdemSoloSpec == Init /\ [][IdemSoloNext]_vars

\* concurrent requests
IdemNext == \E p \in Workers : IdemStep(p)
IdemSpec == Init /\ [][IdemNext]_vars

\* one request at a time, of callers and with keys that contain the separator
NamedNext ==
  \/ \E u \in Names, k \in HeaderKeys, v \in BOOLEAN : IdemCheck(Solo, u, k, v)
  \/ PlaceOrder(Solo)
  \/ IdemSet(Solo)

NamedSpec == Init /\ [][NamedNext]_vars

----------------------------------------------------------------------------
(* The CircuitBreaker middleware: one breaker per path, allow() before the *)
(* handler and recordFailure() or recordSuccess() after it, each under the *)
(* breaker's mutex.  The handler under c.Next() is any handler: it answers *)
(* with a status below 500 or not.  The clock is the variable now.         *)

StatusInternalServerError == 500
StatusServiceUnavailable == 503

\* a breaker key that is the same for every path
SharedKey(path) == "/orders"

\* the key of a request's breaker: c.FullPath()
BreakerKey(path) == path

\* allow: ok tells whether the request goes on, cb is the breaker afterwards
allow(cb, t) ==
  CASE cb.state = "CLOSED" -> [ok |-> TRUE, cb |-> cb]
    [] cb.state = "OPEN" ->
         IF t - cb.lastFailureTime > Cooldown
         THEN [ok |-> TRUE, cb |-> [cb EXCEPT !.state = "HALF_OPEN"]]
         ELSE [ok |-> FALSE, cb |-> cb]
    [] cb.state = "HALF_OPEN" -> [ok |-> FALSE, cb |-> cb]

recordSuccess(cb) == [cb EXCEPT !.failures = 0, !.state = "CLOSED"]

\* a recordFailure that counts and never opens the breaker
recordFailureOnly(cb, t) == [cb EXCEPT !.failures = cb.failures + 1, !.lastFailureTime = t]

recordFailure(cb, t) ==
  [state |-> IF cb.failures + 1 >= Threshold THEN "OPEN" ELSE cb.state,
   failures |-> cb.failures + 1,
   lastFailureTime |-> t]

\* a request arrives: rejected with 503, or admitted to the handler (as the
\* probe when allow() moved the breaker to HALF_OPEN)
BreakerAllow(p, path) ==
  /\ req[p].phase \in {"none", "done"}
  /\ LET k == BreakerKey(path)
         a == allow(breakers[k], now)
         r == [NoRequest EXCEPT !.route = path]
     IN /\ breakers' = [breakers EXCEPT ![k] = a.cb]
        /\ req' = [req EXCEPT ![p] =
                     IF a.ok THEN [r EXCEPT !.phase = "admitted", !.probe = (a.cb # breakers[k])]
                     ELSE [r EXCEPT !.phase = "done", !.status = StatusServiceUnavailable,
                                    !.body = Body(CodeCircuitOpen, NoOrderID)]]
  /\ UNCHANGED <<db, tx, last, agg, idem, now, bulk, rl, chain>>

\* the handler has answered with status: the response is recorded
BreakerRecord(p, status) ==
  /\ req[p].phase = "admitted"
  /\ LET k == BreakerKey(req[p].route)
     IN breakers' = [breakers EXCEPT ![k] =
                       IF status >= 500 THEN recordFailure(breakers[k], now)
                       ELSE recordSuccess(breakers[k])]
  /\ req' = [req EXCEPT ![p].phase = "done", ![p].ran = TRUE, ![p].status = status]
  /\ UNCHANGED <<db, tx, last, agg, idem, now, bulk, rl, chain>>

Tick ==
  /\ now < MaxTime
  /\ now' = now + 1
  /\ UNCHANGED <<db, tx, last, agg, req, idem, breakers, bulk, rl, chain>>

BreakerNext ==
  \/ \E p \in Workers, r \in Routes : BreakerAllow(p, r)
  \/ \E p \in Workers, s \in {StatusOK, StatusInternalServerError} : BreakerRecord(p, s)
  \/ Tick

BreakerSpec == Init /\ [][BreakerNext]_vars

\* the handler panics: the panic passes through the breaker's middleware, which
\* has no deferred call, so neither recordFailure nor recordSuccess runs;
\* Recovery answers 500
BreakerPanic(p) ==
  /\ req[p].phase = "admitted"
  /\ req' = [req EXCEPT ![p].phase = "done", ![p].ran = TRUE,
                        ![p].status = StatusInternalServerError,
                        ![p].body = Body(ErrInternal, NoOrderID)]
  /\ UNCHANGED <<db, tx, last, agg, idem, breakers, now, bulk, rl, chain>>

PanicNext ==
  \/ BreakerNext
  \/ \E p \in Workers : BreakerPanic(p)

PanicSpec == Init /\ [][PanicNext]_vars

----------------------------------------------------------------------------
(* Bulkhead: a buffered channel of maxConcurrent tokens.  A request takes  *)
(* a token with a non-blocking send, or is answered 503 at once when the   *)
(* channel is full; the deferred receive gives the token back when the     *)
(* rest of the chain returns or panics (Recovery, installed before the     *)
(* bulkhead, turns the panic into a 500 after the deferred receive ran).   *)
(***************************************************************************)
\* what the rest of the chain can do with an admitted request
Outcomes == {"success", "failure", "panic"}

\* the status the client reads: Recovery answers a panic with 500
Recovery(outcome) ==
  CASE outcome = "success" -> StatusOK
    [] outcome = "failure" -> StatusBadRequest
    [] outcome = "panic" -> StatusInternalServerError

\* case sem <- struct{}{}: the send succeeds while the buffer has room
TryAcquireAlways(sem) == TRUE
TryAcquire(sem) == sem < Capacity

\* defer func() { <-sem }(): runs however c.Next() ends
ReleaseUnlessPanic(sem, outcome) == IF outcome = "panic" THEN sem ELSE sem - 1
Release(sem, outcome) == sem - 1

\* a request of caller c reaches the bulkhead
Bulkhead(c) ==
  /\ bulk.calls[c].phase # "running"
  /\ IF TryAcquire(bulk.sem)
     THEN bulk' = [bulk EXCEPT !.sem = @ + 1,
                               !.calls[c] = [phase |-> "running", outcome |-> "", status |-> 0]]
     ELSE bulk' = [bulk EXCEPT !.calls[c] = [phase |-> "rejected", outcome |-> "",
                                             status |-> StatusServiceUnavailable]]
  /\ UNCHANGED <<db, tx, last, agg, req, idem, breakers, now, rl, chain>>

\* the rest of the chain ends for the admitted request of caller c
BulkheadDone(c, outcome) ==
  /\ bulk.calls[c].phase = "running"
  /\ bulk' = [bulk EXCEPT !.sem = Release(@, outcome),
                          !.calls[c] = [phase |-> "finished", outcome |-> outcome,
                                        status |-> Recovery(outcome)]]
  /\ UNCHANGED <<db, tx, last, agg, req, idem, breakers, now, rl, chain>>

BulkheadNext ==
  \/ \E c \in Callers : Bulkhead(c)
  \/ \E c \in Callers, o \in Outcomes : BulkheadDone(c, o)

BulkheadSpec == Init /\ [][BulkheadNext]_vars

----------------------------------------------------------------------------
(* Rate limiter: one sorted set per client IP, scored by the time of the   *)
(* request.  Allow queues ZREMRANGEBYSCORE, ZCARD, ZADD and EXPIRE on a    *)
(* Pipeline() (one round trip, no MULTI/EXEC), so the store runs the four  *)
(* commands in order but may run another connection's commands between    *)
(* them.  EXPIRE removes a key only when every member is older than the    *)
(* window, which ZREMRANGEBYSCORE does as well: it changes nothing here.   *)
(* A store error can end the pipeline after any number of its commands.    *)
(***************************************************************************)
StatusTooManyRequests == 429

\* count < int64(r.maxRequests)
Allowed(count) == count < MaxRequests

\* the middleware: pass the request on, or answer 429
RateLimitFailClosed(allowed, err) == IF err \/ ~allowed THEN "limited" ELSE "next"
RateLimitOutcome(allowed, err) ==
  IF err THEN "next"
  ELSE IF ~allowed THEN "limited"
  ELSE "next"

\* a request from ip reaches the limiter on worker p: now and the member are fixed
RateLimit(p, ip) ==
  /\ rl.calls[p].pc \in {"idle", "done"}
  /\ rl.n < MaxCalls
  /\ rl' = [rl EXCEPT !.n = @ + 1,
                      !.calls[p] = [NoAllow EXCEPT !.pc = "zrem", !.ip = ip, !.at = now,
                                                   !.member = rl.n + 1]]
  /\ UNCHANGED <<db, tx, last, agg, req, idem, breakers, now, bulk, chain>>

\* ZREMRANGEBYSCORE key 0 windowStart
ZRemRangeByScore(p) ==
  LET c == rl.calls[p] IN
  /\ c.pc = "zrem"
  /\ rl' = [rl EXCEPT !.zset[c.ip] = {e \in @ : e.score > c.at - Window},
                      !.calls[p].pc = "zcard"]
  /\ UNCHANGED <<db, tx, last, agg, req, idem, breakers, now, bulk, chain>>

\* ZCARD key
ZCard(p) ==
  LET c == rl.calls[p] IN
  /\ c.pc = "zcard"
  /\ rl' = [rl EXCEPT !.calls[p].count = Cardinality(rl.zset[c.ip]),
                      !.calls[p].pc = "zadd"]
  /\ UNCHANGED <<db, tx, last, agg, req, idem, breakers, now, bulk, chain>>

\* a ZADD that records the request only when the count read is under the limit
ZAddIfAllowed(p) ==
  LET c == rl.calls[p] IN
  /\ c.pc = "zadd"
  /\ rl' = [rl EXCEPT !.zset[c.ip] = IF Allowed(c.count)
                                     THEN @ \cup {[score |-> c.at, member |-> c.member]}
                                     ELSE @,
                      !.calls[p].pc = "exec"]
  /\ UNCHANGED <<db, tx, last, agg, req, idem, breakers, now, bulk, chain>>

\* ZADD key now member
ZAdd(p) ==
  LET c == rl.calls[p] IN
  /\ c.pc = "zadd"
  /\ rl' = [rl EXCEPT !.zset[c.ip] = @ \cup {[score |-> c.at, member |-> c.member]},
                      !.calls[p].pc = "exec"]
  /\ UNCHANGED <<db, tx, last, agg, req, idem, breakers, now, bulk, chain>>

\* the request leaves the limiter: passed on, or answered 429
Leaves(p, err) ==
  LET c == rl.calls[p]
      allowed == ~err /\ Allowed(c.count)
      result == RateLimitOutcome(allowed, err) IN
  rl' = [rl EXCEPT !.calls[p] = [c EXCEPT !.pc = "done", !.err = err, !.result = result,
                                          !.status = IF result = "limited"
                                                     THEN StatusTooManyRequests ELSE 0],
                   !.admitted[c.ip] = IF allowed
                                      THEN @ \cup {[score |-> c.at, member |-> c.member]}
                                      ELSE @,
                   !.limited[c.ip] = IF result = "limited"
                                     THEN @ \cup {[score |-> c.at, member |-> c.member]}
                                     ELSE @]

\* EXPIRE, the replies of the pipeline, and the middleware's decision
Allow(p) ==
  /\ rl.calls[p].pc = "exec"
  /\ Leaves(p, FALSE)
  /\ UNCHANGED <<db, tx, last, agg, req, idem, breakers, now, bulk, chain>>

\* pipe.Exec returns an error
AllowError(p) ==
  /\ rl.calls[p].pc \in {"zrem", "zcard", "zadd", "exec"}
  /\ Leaves(p, TRUE)
  /\ UNCHANGED <<db, tx, last, agg, req, idem, breakers, now, bulk, chain>>

RateNext ==
  \/ \E p \in Workers, ip \in IPs : RateLimit(p, ip)
  \/ \E p \in Workers : ZRemRangeByScore(p)
  \/ \E p \in Workers : ZCard(p)
  \/ \E p \in Workers : ZAdd(p)
  \/ \E p \in Workers : Allow(p)
  \/ \E p \in Workers : AllowError(p)
  \/ Tick

RateSpec == Init /\ [][RateNext]_vars

\* the requests served one after the other
RateSoloNext ==
  \/ \E ip \in IPs : RateLimit(Solo, ip)
  \/ ZRemRangeByScore(Solo)
  \/ ZCard(Solo)
  \/ ZAdd(Solo)
  \/ Allow(Solo)
  \/ AllowError(Solo)
  \/ Tick

RateSoloSpec == Init /\ [][RateSoloNext]_vars

----------------------------------------------------------------------------
(* The Drone and Job aggregates on their own: an aggregate as loaded from  *)
(* its row, and its methods called on it one after the other.  The drone   *)
(* carries its coordinate here, which MarkBroken copies into the event.    *)
(***************************************************************************)
\* the drones and jobs a row can hold
LoadedDrones ==
  {d \in [status : DroneStatuses, order : OrderIDs \cup {NoOrderID}, loc : Locations] :
     d.order # NoOrderID <=> d.status \in {"EN_ROUTE_PICKUP", "EN_ROUTE_DELIVERY"}}
LoadedJobs ==
  {j \in [order : OrderIDs, status : JobStatuses, drone : Drones \cup {Nil}] :
     j.drone # Nil <=> j.status \in {"RESERVED", "COMPLETED"}}

\* Location(): the coordinate of the drone
Location(d) == d.loc

\* UpdateLocation: the coordinate of the heartbeat
UpdateLocation(d, loc) == [d EXCEPT !.loc = loc]

\* no DroneBrokenEvent (nil)
NoEvent == [location |-> Nil, order |-> NoOrderID]

\* a method of the aggregate kind is called with arg and returns r and event
Invoked(kind, method, arg, r, event) ==
  /\ agg.kind = kind
  /\ agg' = [kind |-> kind, method |-> method, arg |-> arg, before |-> agg.after,
             after |-> r.v, err |-> r.err, event |-> event]
  /\ UNCHANGED <<db, tx, last, req, idem, breakers, now, bulk, rl, chain>>

CallDroneReserve(orderID) ==
  Invoked("drone", "Reserve", orderID, DroneReserve(agg.after, orderID), NoEvent)
CallStartDelivery == Invoked("drone", "StartDelivery", Nil, StartDelivery(agg.after), NoEvent)
CallGoIdle == Invoked("drone", "GoIdle", Nil, Ok(GoIdle(agg.after)), NoEvent)
CallMarkBroken ==
  LET r == MarkBroken(agg.after) IN
  Invoked("drone", "MarkBroken", Nil, [err |-> r.err, v |-> r.v],
          IF r.err = "" THEN [location |-> Location(agg.after), order |-> r.event]
          ELSE NoEvent)
CallMarkFixed == Invoked("drone", "MarkFixed", Nil, MarkFixed(agg.after), NoEvent)
CallUpdateLocation(loc) ==
  Invoked("drone", "UpdateLocation", loc, Ok(UpdateLocation(agg.after, loc)), NoEvent)

CallJobReserve(droneID) ==
  Invoked("job", "Reserve", droneID, JobReserve(agg.after, droneID), NoEvent)
CallJobComplete == Invoked("job", "Complete", Nil, JobComplete(agg.after), NoEvent)
CallJobCancel == Invoked("job", "Cancel", Nil, JobCancel(agg.after), NoEvent)

AggregateInit ==
  /\ DbInit
  /\ \/ \E d \in LoadedDrones :
          agg = [kind |-> "drone", method |-> "none", arg |-> Nil, before |-> d, after |-> d,
                 err |-> "", event |-> NoEvent]
     \/ \E j \in LoadedJobs :
          agg = [kind |-> "job", method |-> "none", arg |-> Nil, before |-> j, after |-> j,
                 err |-> "", event |-> NoEvent]
  /\ req = [p \in Workers |-> NoRequest]
  /\ idem = NoEntries
  /\ breakers = [r \in Routes |-> newCircuitBreaker]
  /\ now = 0
  /\ bulk = NoBulkhead
  /\ rl = NoLimiter
  /\ chain = NoChain

AggregateNext ==
  \/ \E o \in OrderIDs : CallDroneReserve(o)
  \/ CallStartDelivery
  \/ CallGoIdle
  \/ CallMarkBroken
  \/ CallMarkFixed
  \/ \E l \in Locations : CallUpdateLocation(l)
  \/ \E d \in Drones : CallJobReserve(d)
  \/ CallJobComplete
  \/ CallJobCancel

AggregateSpec == AggregateInit /\ [][AggregateNext]_vars

----------------------------------------------------------------------------
(* The middleware chain of the enduser routes.  gin runs the handlers of   *)
(* a route in the order of the Use calls; c.Next() runs the rest of the    *)
(* chain inside the calling middleware and AbortWithStatusJSON ends it,    *)
(* after which the middlewares already entered unwind (the bulkhead's      *)
(* deferred release, the idempotency Set after c.Next()).  Each passage    *)
(* records the stages it entered and its uses of the semaphore and of the  *)
(* idempotency store.                                                      *)
(***************************************************************************)
StatusUnauthorized == 401
StatusForbidden == 403

\* r.Use and enduserGroup.Use, then the handler of the route
StagesBulkheadFirst == <<"bulkhead", "ratelimit", "auth", "role", "idempotency", "handler">>
Stages == <<"ratelimit", "auth", "role", "bulkhead", "idempotency", "handler">>

Finished == Len(Stages) + 1

\* the claims of the bearer token: no token, or the role it names
Roles == {"", "enduser", "drone"}

\* the passage c is at stage s
AtStage(c, s) == chain[c].i \in 1..Len(Stages) /\ Stages[chain[c].i] = s

\* the chain state changes: passage c becomes v, the semaphore and the store as given
Passes(c, v, sem, store) ==
  /\ chain' = [chain EXCEPT ![c] = v]
  /\ bulk' = [bulk EXCEPT !.sem = sem]
  /\ idem' = store
  /\ UNCHANGED <<db, tx, last, agg, req, breakers, now, rl>>

\* c.Next(): the next stage is entered
Forward(v) == [v EXCEPT !.i = @ + 1, !.seen = Append(@, Stages[v.i + 1])]

\* the chain is aborted with status and code, or the handler has answered with
\* them: the middlewares entered unwind, the bulkhead gives its token back
Unwound(v, status, code) ==
  [v EXCEPT !.i = Finished, !.status = status, !.code = code, !.slot = FALSE]
SemAfter(v) == IF v.slot THEN Release(bulk.sem, "success") ELSE bulk.sem

\* a request with the token of role and user reaches the router
Caller == "u1"
Enter(c, role, user) ==
  /\ chain[c].i \in {0, Finished}
  /\ Passes(c, [NoPassage EXCEPT !.i = 1, !.role = role, !.user = user, !.key = "k1",
                                 !.seen = <<Stages[1]>>],
            bulk.sem, idem)

RateLimitStage(c, allowed, err) ==
  /\ AtStage(c, "ratelimit")
  /\ IF RateLimitOutcome(allowed, err) = "limited"
     THEN Passes(c, Unwound(chain[c], StatusTooManyRequests, CodeRateLimited), SemAfter(chain[c]), idem)
     ELSE Passes(c, Forward(chain[c]), bulk.sem, idem)

AuthStage(c) ==
  /\ AtStage(c, "auth")
  /\ IF chain[c].role = ""
     THEN Passes(c, Unwound(chain[c], StatusUnauthorized, ErrUnauthorized), SemAfter(chain[c]), idem)
     ELSE Passes(c, Forward(chain[c]), bulk.sem, idem)

RoleGuardStage(c) ==
  /\ AtStage(c, "role")
  /\ IF chain[c].role # "enduser"
     THEN Passes(c, Unwound(chain[c], StatusForbidden, ErrForbidden), SemAfter(chain[c]), idem)
     ELSE Passes(c, Forward(chain[c]), bulk.sem, idem)

BulkheadStage(c) ==
  /\ AtStage(c, "bulkhead")
  /\ IF TryAcquire(bulk.sem)
     THEN Passes(c, [Forward(chain[c]) EXCEPT !.slot = TRUE, !.slots = @ + 1],
                 bulk.sem + 1, idem)
     ELSE Passes(c, Unwound(chain[c], StatusServiceUnavailable, CodeServiceUnavailable), SemAfter(chain[c]), idem)

IdempotencyStage(c) ==
  /\ AtStage(c, "idempotency")
  /\ LET v == [chain[c] EXCEPT !.reads = @ + 1] IN
     IF Check(v.user, v.key).found
     THEN Passes(c, Unwound(v, StatusOK, Check(v.user, v.key).cached.code), SemAfter(v), idem)
     ELSE Passes(c, Forward(v), bulk.sem, idem)

\* the handler answers; the idempotency middleware, when it was entered, stores a
\* response in the success range
HandlerStage(c, status) ==
  /\ AtStage(c, "handler")
  /\ LET v == chain[c]
         stores == (\E k \in 1..Len(v.seen) : v.seen[k] = "idempotency") /\ Cacheable(status) IN
     Passes(c, Unwound([v EXCEPT !.writes = IF stores THEN @ + 1 ELSE @], status,
                     IF status = StatusBadRequest THEN ErrValidation ELSE "ok"),
            SemAfter(v),
            IF stores THEN Set(v.user, v.key, Body("ok", 1)) ELSE idem)

ChainNext ==
  \/ \E c \in Passers, r \in Roles : Enter(c, r, Caller)
  \/ \E c \in Passers, a \in BOOLEAN, e \in BOOLEAN : RateLimitStage(c, a, e)
  \/ \E c \in Passers : AuthStage(c)
  \/ \E c \in Passers : RoleGuardStage(c)
  \/ \E c \in Passers : BulkheadStage(c)
  \/ \E c \in Passers : IdempotencyStage(c)
  \/ \E c \in Passers, s \in {StatusCreated, StatusBadRequest} : HandlerStage(c, s)

ChainSpec == Init /\ [][ChainNext]_vars

\* the chain, entered by end users whose requests the handler finds invalid, next
\* to one caller of a route behind the circuit breaker
RejectionNext ==
  \/ \E c \in Passers : Enter(c, "enduser", Caller)
  \/ \E c \in Passers, a \in BOOLEAN, e \in BOOLEAN : RateLimitStage(c, a, e)
  \/ \E c \in Passers : AuthStage(c)
  \/ \E c \in Passers : RoleGuardStage(c)
  \/ \E c \in Passers : BulkheadStage(c)
  \/ \E c \in Passers : IdempotencyStage(c)
  \/ \E c \in Passers : HandlerStage(c, StatusBadRequest)
  \/ BreakerAllow(Solo, "/orders")
  \/ \E s \in {StatusOK, StatusInternalServerError} : BreakerRecord(Solo, s)

RejectionSpec == Init /\ [][RejectionNext]_vars

----------------------------------------------------------------------------
(* Properties.                                                             *)

\* the jobs RESERVED by drone d, the orders ASSIGNED to or PICKED_UP by it
ReservedJobsOf(d) == {j \in 1..Len(jobs) : jobs[j].status = "RESERVED" /\ jobs[j].drone = d}
CarriedOrdersOf(d) ==
  {o \in 1..Len(orders) : orders[o].status \in {"ASSIGNED", "PICKED_UP"} /\ orders[o].drone = d}

\* C1: ReserveJobAndAssign is atomic.  A call writes nothing to the committed rows
\* before it commits, and a call that returns an error (at the drone-reserve step
\* in particular) leaves jobs, orders and drones as they were: the job OPEN and
\* unbound, the order unassigned in its previous status; no other operation can
\* read the job RESERVED or the order ASSIGNED from the failed call.
C1_ReserveAtomic ==
  [][/\ (last'.op = "Reserve" /\ last'.outcome # "ok") => UNCHANGED db
     /\ \A p \in Workers :
          (tx'[p] # tx[p] /\ tx'[p].op = "Reserve") => UNCHANGED db]_vars

\* a call has just failed at the drone-reserve step (the drone is not IDLE) and
\* its job is OPEN and unbound, its order PENDING and unassigned
C1_FailedAtDrone ==
  /\ last.op = "Reserve" /\ last.at = "drone" /\ last.outcome = ErrInvalidTransition
  /\ JobGetByID(last.job) = NewJob(last.order)
  /\ OrderGetByID(last.order).status = "PENDING"
  /\ OrderGetByID(last.order).drone = Nil

\* C2: of the ReserveJobAndAssign calls that run concurrently on one OPEN job,
\* exactly one succeeds.  A call that started on the OPEN job and returns when the
\* job is committed RESERVED for another drone (it lost the race) does not
\* succeed, and it leaves the winner's binding as it is.
C2_OneWinner ==
  [][\A p \in Workers :
       (/\ tx[p].op = "Reserve" /\ tx'[p] = IdleTx
        /\ JobGetByID(tx[p].job).status = "RESERVED"
        /\ JobGetByID(tx[p].job).drone # tx[p].drone)
         => (last'.outcome # "ok" /\ jobs'[tx[p].job] = jobs[tx[p].job])]_vars

\* C3: a drone is bound to at most one order: in every committed state at most
\* one job is RESERVED by a drone and at most one order is ASSIGNED to or
\* PICKED_UP by it.
C3_OneOrderPerDrone ==
  \A d \in Drones : Cardinality(ReservedJobsOf(d)) <= 1 /\ Cardinality(CarriedOrdersOf(d)) <= 1

\* C4: HandleDroneBroken on a drone that is not BROKEN commits the drone BROKEN
\* with no current order; when the drone carried an order it commits with it the
\* order in AWAITING_HANDOFF with no assigned drone and exactly one new OPEN job
\* for the order; when it carried none, nothing else changes.
C4_BrokenHandsOff ==
  [][\A p \in Workers :
       (tx[p].op = "Broken" /\ tx'[p] = IdleTx)
         => LET o == tx[p].order
            IN /\ last'.outcome = "ok"
               /\ drones'[tx[p].drone] = [status |-> "BROKEN", order |-> NoOrderID]
               /\ IF o = NoOrderID
                  THEN orders' = orders /\ jobs' = jobs
                  ELSE /\ orders'[o].status = "AWAITING_HANDOFF"
                       /\ orders'[o].drone = Nil
                       /\ jobs' = Append(jobs, NewJob(o))]_vars

\* C5: in every committed state each order has at most one job that is not
\* CANCELLED.
C5_OneActiveJobPerOrder ==
  \A o \in 1..Len(orders) : Cardinality(ActiveJobsOf(o)) <= 1

\* the handoff job of an order waits for a drone that can take it
HandoffReady(jobID, droneID) ==
  /\ JobGetByID(jobID).status = "OPEN"
  /\ OrderGetByID(JobGetByID(jobID).order).status = "AWAITING_HANDOFF"
  /\ DroneGetByID(droneID).status = "IDLE"

\* C6: the handoff.  With one request at a time: HandleDroneBroken on a drone
\* whose order is ASSIGNED or PICKED_UP succeeds and leaves the order in
\* AWAITING_HANDOFF with a new OPEN job; ReserveJobAndAssign of the OPEN job of
\* an AWAITING_HANDOFF order by an IDLE drone succeeds and leaves the order
\* ASSIGNED to that drone; GrabOrder by the drone an ASSIGNED order is bound to,
\* when the drone is EN_ROUTE_PICKUP, succeeds and leaves the order PICKED_UP;
\* CompleteDelivery by the drone a PICKED_UP order is bound to succeeds, and with
\* delivered = true leaves the order DELIVERED.
C6_HandoffDelivers ==
  [][LET r == last'
     IN /\ \A p \in Workers :
             (/\ tx[p].op = "Broken" /\ tx'[p] # tx[p] /\ tx[p].order # NoOrderID
              /\ OrderGetByID(tx[p].order).status \in {"ASSIGNED", "PICKED_UP"})
               => \/ tx'[p].op = "Broken"
                  \/ /\ r.outcome = "ok"
                     /\ orders'[tx[p].order].status = "AWAITING_HANDOFF"
                     /\ jobs' = Append(jobs, NewJob(tx[p].order))
        /\ (r.op = "Reserve" /\ HandoffReady(r.job, r.drone))
             => /\ r.outcome = "ok"
                /\ orders'[r.order].status = "ASSIGNED"
                /\ orders'[r.order].drone = r.drone
                /\ jobs'[r.job] = [NewJob(r.order) EXCEPT !.status = "RESERVED", !.drone = r.drone]
        /\ (/\ r.op = "Grab"
            /\ OrderGetByID(r.order).status = "ASSIGNED"
            /\ OrderGetByID(r.order).drone = r.drone
            /\ DroneGetByID(r.drone).status = "EN_ROUTE_PICKUP")
             => (r.outcome = "ok" /\ orders'[r.order].status = "PICKED_UP")
        /\ (/\ r.op = "Complete"
            /\ OrderGetByID(r.order).status = "PICKED_UP"
            /\ OrderGetByID(r.order).drone = r.drone)
             => /\ r.outcome = "ok"
                /\ orders'[r.order].status = IF r.delivered THEN "DELIVERED" ELSE "FAILED"]_vars

\* the second drone has just delivered the order the first one dropped: the
\* first job is still RESERVED by the first drone, the handoff job COMPLETED by
\* the second
C6_HandedOffAndDelivered ==
  /\ last.op = "Complete" /\ last.outcome = "ok" /\ last.delivered
  /\ OrderGetByID(last.order).status = "DELIVERED"
  /\ \E j1, j2 \in 1..Len(jobs) :
       /\ j1 < j2
       /\ jobs[j1].order = last.order /\ jobs[j2].order = last.order
       /\ jobs[j1].status = "RESERVED" /\ jobs[j1].drone # last.drone
       /\ jobs[j2].status = "COMPLETED" /\ jobs[j2].drone = last.drone

\* C7: CancelOrderAndJob on a DELIVERED order is a no-op: it changes no order and
\* no job, and what it returns is not an error.
C7_CancelDeliveredNoOp ==
  [][\A p \in Workers :
       (/\ tx[p].op = "Cancel" /\ tx'[p] = IdleTx
        /\ OrderGetByID(tx[p].order).status = "DELIVERED")
         => (UNCHANGED db /\ last'.outcome \notin ErrorCodes)]_vars

\* C8: concurrent cancels are idempotent.  A CancelOrderAndJob call whose
\* UPDATE of the order waited for the row's lock and then finds the order
\* cancelled by the other call changes nothing, and what it returns is not
\* an error.
C8_CancelLoserNoOp ==
  [][\A p \in Workers :
       (/\ tx[p].op = "Cancel" /\ tx[p].pc = "waitOrder" /\ tx'[p] = IdleTx
        /\ OrderGetByID(tx[p].order).status = "CANCELLED")
         => (UNCHANGED db /\ last'.outcome \notin ErrorCodes)]_vars

\* C9: a CancelOrderAndJob that succeeds on a PENDING order leaves the order
\* WITHDRAWN and every job of the order CANCELLED with no drone binding.
C9_CancelWithdraws ==
  [][\A p \in Workers :
       (/\ tx[p].op = "Cancel" /\ tx'[p] = IdleTx /\ last'.outcome = "ok"
        /\ OrderGetByID(tx[p].order).status = "PENDING")
         => /\ orders'[tx[p].order].status = "WITHDRAWN"
            /\ \A j \in 1..Len(jobs) :
                 jobs[j].order = tx[p].order
                   => (jobs'[j].status = "CANCELLED" /\ jobs'[j].drone = Nil)]_vars

\* the transitions of an order's status
OrderEdges ==
  {<<"PENDING", "ASSIGNED">>, <<"PENDING", "WITHDRAWN">>,
   <<"ASSIGNED", "PICKED_UP">>, <<"ASSIGNED", "AWAITING_HANDOFF">>,
   <<"PICKED_UP", "DELIVERED">>, <<"PICKED_UP", "FAILED">>,
   <<"PICKED_UP", "AWAITING_HANDOFF">>, <<"AWAITING_HANDOFF", "ASSIGNED">>}

\* C10: a persisted order's status is always one of the seven statuses and
\* changes only along the transitions of the order; an order in DELIVERED,
\* FAILED or WITHDRAWN never changes status again.
C10_OrderLifecycle ==
  [][\A o \in 1..Len(orders') :
       /\ orders'[o].status \in OrderStatuses
       /\ (o <= Len(orders) /\ orders'[o].status # orders[o].status)
            => <<orders[o].status, orders'[o].status>> \in OrderEdges]_vars

\* the status each transition method of Order leads to
TargetOf(method) ==
  CASE method = "Withdraw" -> "WITHDRAWN"
    [] method = "Assign" -> "ASSIGNED"
    [] method = "MarkPickedUp" -> "PICKED_UP"
    [] method = "MarkDelivered" -> "DELIVERED"
    [] method = "MarkFailed" -> "FAILED"
    [] method = "AwaitHandoff" -> "AWAITING_HANDOFF"
    [] OTHER -> "NONE"

\* C11: a transition method of Order called from a status that has no
\* listed transition to the method's target returns InvalidTransition and
\* leaves the order's status and assigned drone as they were; UpdateOrigin and
\* UpdateDestination fail, the same way, exactly on DELIVERED, FAILED and
\* WITHDRAWN orders.
C11_UnlistedEdgeRejected ==
  /\ (TargetOf(agg.method) # "NONE" /\ <<agg.before.status, TargetOf(agg.method)>> \notin OrderEdges)
       => (/\ agg.err = ErrInvalidTransition
           /\ agg.after.status = agg.before.status
           /\ agg.after.drone = agg.before.drone)
  /\ agg.method \in {"UpdateOrigin", "UpdateDestination"}
       => (/\ agg.err # "" <=> agg.before.status \in {"DELIVERED", "FAILED", "WITHDRAWN"}
           /\ agg.err # "" => (agg.err = ErrInvalidTransition /\ agg.after = agg.before))

C11_WithdrawAssignedFails ==
  /\ agg.method = "Withdraw" /\ agg.before.status = "ASSIGNED"
  /\ agg.err = ErrInvalidTransition /\ agg.after = agg.before

\* C12: in every committed state an order has an assigned drone only if its
\* status is ASSIGNED or PICKED_UP.
C12_DroneOnlyWhileCarried ==
  \A o \in 1..Len(orders) :
    orders[o].drone # Nil => orders[o].status \in {"ASSIGNED", "PICKED_UP"}

\* C13: in every committed state a drone has a current order only if its
\* status is EN_ROUTE_PICKUP or EN_ROUTE_DELIVERY.
C13_OrderOnlyEnRoute ==
  \A d \in Drones :
    drones[d].order # NoOrderID => drones[d].status \in {"EN_ROUTE_PICKUP", "EN_ROUTE_DELIVERY"}

C13_IdleAfterDelivery ==
  /\ last.op = "Complete" /\ last.outcome = "ok"
  /\ drones[last.drone] = [status |-> "IDLE", order |-> NoOrderID]
  /\ OrderGetByID(last.order).status \in {"DELIVERED", "FAILED"}

\* C14: in every committed state a job has a reserving drone only if its
\* status is RESERVED.
C14_BindingOnlyWhileReserved ==
  \A j \in 1..Len(jobs) : jobs[j].drone # Nil => jobs[j].status = "RESERVED"

\* worker p takes, in this step, a request with the caller, key and body of
\* the request it finished last
Resends(p) ==
  /\ req[p].phase = "done" /\ req'[p] # req[p]
  /\ req'[p].route = req[p].route /\ req'[p].user = req[p].user
  /\ req'[p].key = req[p].key /\ req'[p].valid = req[p].valid

\* C15: when a request has completed with a success response and the same
\* request is sent again, the second response has the status and the body of
\* the first, the handler is not executed and no row changes.
C15_ReplayIdentical ==
  [][\A p \in Workers :
       (Resends(p) /\ req[p].ran /\ req[p].status \in 200..299)
         => (/\ req'[p].phase = "done" /\ ~req'[p].ran
             /\ req'[p].body = req[p].body
             /\ req'[p].status = req[p].status
             /\ UNCHANGED db)]_vars

\* two requests of the same caller and key are past Check and not yet past Set
InFlightTogether(p, q) ==
  /\ p # q
  /\ req[p].user = req[q].user /\ req[p].key = req[q].key
  /\ req[p].phase \in {"next", "after"} /\ req[q].phase \in {"next", "after"}

\* C16: of two requests with the same caller and key that are in flight at
\* the same time, at most one executes the operation successfully.
C16_AtMostOnce ==
  \A p, q \in Workers :
    InFlightTogether(p, q)
      => ~(/\ req[p].ran /\ req[p].status \in 200..299
           /\ req[q].ran /\ req[q].status \in 200..299)

\* C17: the store changes only by storing the body of a response whose
\* status is in 200..299 under the caller and key of its request; and when a
\* request ended with an error response, the next request with the same
\* caller and key goes on to the handler.
C17_ErrorsNotCached ==
  [][/\ idem' # idem
        => \E p \in Workers :
             /\ req[p].phase = "after" /\ req[p].status \in 200..299
             /\ idem' = [idem EXCEPT ![idempotencyKey(req[p].user, req[p].key)] = req[p].body]
     /\ \A p \in Workers :
          (/\ req[p].phase = "done" /\ req[p].status \notin 200..299
           /\ req'[p] # req[p]
           /\ req'[p].user = req[p].user /\ req'[p].key = req[p].key)
            => (req'[p].phase = "next" /\ UNCHANGED idem)]_vars

C17_ErrorEndedUncached ==
  \E p \in Workers :
    /\ req[p].phase = "done" /\ req[p].ran /\ req[p].status = StatusBadRequest
    /\ idem[idempotencyKey(req[p].user, req[p].key)] = NoBody
    /\ \E u \in Users, k \in Keys : idem[idempotencyKey(u, k)] # NoBody

\* in this step a request of worker p arrives on path r; the handler of a
\* request of worker p on path r has answered
Arrives(p, r) == req[p].phase \in {"none", "done"} /\ req'[p] # req[p] /\ req'[p].route = r
Finishes(p, r) == req[p].phase = "admitted" /\ req[p].route = r /\ req'[p].phase = "done"
Rejected(p) ==
  req'[p].phase = "done" /\ ~req'[p].ran /\ req'[p].status = StatusServiceUnavailable
CoolingDown(r) == ~(now - breakers[r].lastFailureTime > Cooldown)

\* C18: the cycle of one path's breaker.  While CLOSED it counts fewer than
\* Threshold failures: a response of 500 or more adds one and opens the breaker
\* when the count reaches Threshold, any other response sets the count to zero.
\* While OPEN, a request that arrives before the cooldown has elapsed is
\* rejected; the first that arrives after it is admitted as the probe and the
\* breaker is HALF_OPEN, where every request is rejected.  The probe answering
\* while the breaker is HALF_OPEN opens it again when it fails and closes it,
\* with the count at zero, when it succeeds.
C18_BreakerCycle ==
  [][\A r \in Routes, p \in Workers :
       LET cb == breakers[r]
           cb2 == breakers'[r]
       IN /\ cb.state = "CLOSED" => cb.failures < Threshold
          /\ (Finishes(p, r) /\ cb.state = "CLOSED" /\ req'[p].status >= 500)
               => /\ cb2.failures = cb.failures + 1
                  /\ cb2.state = IF cb.failures + 1 = Threshold THEN "OPEN" ELSE "CLOSED"
          /\ (Finishes(p, r) /\ cb.state = "CLOSED" /\ req'[p].status < 500)
               => (cb2.failures = 0 /\ cb2.state = "CLOSED")
          /\ (Arrives(p, r) /\ cb.state = "OPEN" /\ ~CoolingDown(r))
               => (req'[p].phase = "admitted" /\ req'[p].probe /\ cb2.state = "HALF_OPEN")
          /\ (Arrives(p, r) /\ (cb.state = "HALF_OPEN" \/ (cb.state = "OPEN" /\ CoolingDown(r))))
               => (Rejected(p) /\ cb2 = cb)
          /\ (Finishes(p, r) /\ req[p].probe /\ cb.state = "HALF_OPEN")
               => IF req'[p].status >= 500
                  THEN cb2.state = "OPEN" /\ cb2.lastFailureTime = now
                  ELSE cb2.state = "CLOSED" /\ cb2.failures = 0]_vars

C18_ProbeClosed ==
  \E p \in Workers :
    /\ req[p].phase = "done" /\ req[p].probe /\ req[p].status = StatusOK
    /\ breakers[req[p].route].state = "CLOSED" /\ breakers[req[p].route].failures = 0
    /\ breakers[req[p].route].lastFailureTime > 0

\* C19: a breaker that is OPEN stays OPEN until the cooldown has elapsed, and
\* until then every request to its path is rejected with the 503 response
\* and does not reach the handler.
C19_OpenUntilCooldown ==
  [][\A r \in Routes :
       (breakers[r].state = "OPEN" /\ CoolingDown(r))
         => /\ breakers'[r].state = "OPEN"
            /\ \A p \in Workers : Arrives(p, r) => Rejected(p)]_vars

\* C20: the breaker of a path changes only in a step of a request to that
\* path, and a request to a path whose breaker is CLOSED is admitted whatever
\* the breakers of the other paths are.
C20_BreakersIndependent ==
  [][\A r \in Routes :
       /\ breakers'[r] # breakers[r]
            => \E p \in Workers : req'[p] # req[p] /\ req'[p].route = r
       /\ \A p \in Workers :
            (Arrives(p, r) /\ breakers[r].state = "CLOSED") => req'[p].phase = "admitted"]_vars

C20_AdmittedBesideOpen ==
  \E p \in Workers, r \in Routes :
    /\ breakers[r].state = "OPEN"
    /\ req[p].phase = "admitted" /\ req[p].route # r
    /\ breakers[req[p].route] = newCircuitBreaker

\* the requests past the bulkhead
InFlight == {c \in Callers : bulk.calls[c].phase = "running"}

\* caller c's request reaches the bulkhead in this step
Reaches(c) == bulk.calls[c].phase # "running" /\ bulk'.calls[c] # bulk.calls[c]

\* C21: with a bulkhead of capacity C, at most C requests are past it at any time; a
\* request that arrives while C are in flight is answered 503 at once and is never
\* queued; a request that arrives while fewer than C are in flight (one has finished)
\* is admitted.
C21_BulkheadBound ==
  [][/\ Cardinality(InFlight') <= Capacity
     /\ \A c \in Callers :
          Reaches(c) =>
            IF Cardinality(InFlight) = Capacity
            THEN /\ bulk'.calls[c].phase = "rejected"
                 /\ bulk'.calls[c].status = StatusServiceUnavailable
            ELSE bulk'.calls[c].phase = "running"]_vars

\* the pool is full again after a request has finished, and the caller that came
\* while it was full has been turned away
C21_FullAndRejected ==
  /\ Cardinality(InFlight) = Capacity
  /\ \E c \in Callers : bulk.calls[c].phase = "rejected"
  /\ \E c \in Callers : bulk.calls[c].phase = "finished"

\* C22: the bulkhead never leaks a slot.  An admitted request gives back exactly one
\* token when it ends (success, failure or panic), a rejected request gives back none,
\* so the tokens taken are the requests in flight and the pool is whole again when
\* every request has ended.
C22_NoLeak ==
  [][/\ \A c \in Callers :
          /\ (bulk.calls[c].phase = "running" /\ bulk'.calls[c].phase = "finished")
               => bulk'.sem = bulk.sem - 1
          /\ (Reaches(c) /\ bulk'.calls[c].phase = "rejected") => bulk'.sem = bulk.sem
     /\ bulk'.sem = Cardinality(InFlight')
     /\ InFlight' = {} => bulk'.sem = 0]_vars

\* every request has ended, one of them by a panic, and no token is taken
C22_WholeAfterPanic ==
  /\ InFlight = {}
  /\ bulk.sem = 0
  /\ \E c \in Callers : bulk.calls[c].outcome = "panic"
  /\ \E c \in Callers : bulk.calls[c].phase = "rejected"

\* the requests of ip that Allow admitted with a time in the window ending at t
AdmittedIn(ip, t) == {a \in rl.admitted[ip] : a.score > t - Window /\ a.score <= t}

\* C23: per client IP, Allow never admits more than maxRequests requests whose times
\* lie in one window, also when requests of that IP are served concurrently.
C23_WindowLimit ==
  \A ip \in IPs, t \in 0..MaxTime : Cardinality(AdmittedIn(ip, t)) <= MaxRequests

\* C24: the rate-limit stage fails open.  A request whose pipeline ends with a store
\* error is passed on to the rest of the chain and is not answered 429.
C24_FailOpen ==
  [][\A p \in Workers :
       (rl.calls[p].pc # "done" /\ rl'.calls[p].pc = "done" /\ rl'.calls[p].err)
         => /\ rl'.calls[p].result = "next"
            /\ rl'.calls[p].status # StatusTooManyRequests]_vars

\* a request that counted a full window hit a store error and was passed on
C24_PassedOverLimit ==
  \E p \in Workers :
    /\ rl.calls[p].pc = "done" /\ rl.calls[p].err
    /\ rl.calls[p].result = "next"
    /\ ~Allowed(rl.calls[p].count)

\* the order can be assigned; worker p takes the first step of a Reserve call
Assignable(o) == o.status \in {"PENDING", "AWAITING_HANDOFF"}
ReserveBegins(p) ==
  /\ tx[p].pc = "idle"
  /\ \/ tx'[p].op = "Reserve"
     \/ last = NoResponse /\ last'.op = "Reserve" /\ tx' = tx

\* C25: ReserveJobAndAssign checks the job, then the order, then the drone, and returns
\* the first failure in that order.  A job that is not OPEN yields Conflict from the
\* first step, whatever the order and the drone are; once the job has passed, an order
\* that cannot be assigned yields InvalidTransition from the order step, whatever the
\* status of the drone; the drone's InvalidTransition is returned only from the drone
\* step, which is reached only with the job reserved and the order assigned in memory.
C25_FirstFailure ==
  [][\A p \in Workers :
       /\ ReserveBegins(p) =>
            LET id == IF tx'[p].op = "Reserve" THEN tx'[p].job ELSE last'.job
                j == JobGetByID(id) IN
            (j # NoJob /\ j.status # "OPEN")
              => /\ tx' = tx
                 /\ last'.at = "job" /\ last'.outcome = ErrConflict
       /\ (At(p, "Reserve", "updJob") /\ ~JobLocked(p, tx[p].job) /\ tx'[p] # tx[p]) =>
            LET o == OrderGetByID(tx[p].order) IN
            (o # NoOrder /\ ~Assignable(o) /\ DroneGetByID(tx[p].drone) # NoDrone)
              => last'.at = "order" /\ last'.outcome = ErrInvalidTransition
       /\ (tx[p].op = "Reserve" /\ tx'[p] # tx[p] /\ last'.op = "Reserve"
             /\ last'.at = "drone" /\ last'.outcome = ErrInvalidTransition)
            => /\ tx[p].pc = "updOrder"
               /\ tx[p].j.status = "RESERVED" /\ tx[p].o.status = "ASSIGNED"
               /\ DroneGetByID(tx[p].drone).status # "IDLE"]_vars

\* a call whose job was OPEN returned the order's InvalidTransition although its
\* drone is not IDLE either
C25_OrderBeforeDrone ==
  /\ last.op = "Reserve" /\ last.at = "order" /\ last.outcome = ErrInvalidTransition
  /\ DroneGetByID(last.drone).status \in {"EN_ROUTE_PICKUP", "EN_ROUTE_DELIVERY", "BROKEN"}

\* worker p takes the first step of a GrabOrder call
GrabBegins(p) ==
  /\ tx[p].pc = "idle"
  /\ \/ tx'[p].op = "Grab"
     \/ last = NoResponse /\ last'.op = "Grab" /\ tx' = tx

JobsOf(o) == {j \in 1..Len(jobs) : jobs[j].order = o}

\* C27: CompleteDelivery by the assigned drone on a PICKED_UP order succeeds and commits
\* the order DELIVERED (or FAILED) with no assigned drone and the drone IDLE with no
\* current order; the most recent job of the order that is not cancelled is COMPLETED
\* when it was RESERVED, and when there is none, or it is not RESERVED, or its write
\* fails, the order and the drone are committed all the same.
C27_CompleteBestEffort ==
  [][(last = NoResponse /\ last'.op = "Complete"
        /\ OrderGetByID(last'.order).status = "PICKED_UP"
        /\ OrderGetByID(last'.order).drone = last'.drone)
       => LET o == last'.order
              d == last'.drone
              id == JobGetByOrderID(o) IN
          /\ last'.outcome = "ok"
          /\ orders'[o].status = IF last'.delivered THEN "DELIVERED" ELSE "FAILED"
          /\ orders'[o].drone = Nil
          /\ drones'[d] = [status |-> "IDLE", order |-> NoOrderID]
          /\ IF id # NoJobID /\ jobs[id].status = "RESERVED"
             THEN jobs' = WriteJob(jobs, id, [jobs[id] EXCEPT !.status = "COMPLETED"])
             ELSE UNCHANGED jobs]_vars

\* C28: CreateOrderAndJob is atomic.  A call that succeeds adds a PENDING order and one
\* OPEN, unbound job that references it, and no other job does; a call that fails at
\* either write adds neither; at no time is there an order without a job.
C28_CreateAtomic ==
  [][/\ (last = NoResponse /\ last'.op = "Create") =>
          IF last'.outcome = "ok"
          THEN /\ orders' = Append(orders, [status |-> "PENDING", drone |-> Nil,
                                            owner |-> orders'[Len(orders')].owner])
               /\ jobs' = Append(jobs, [status |-> "OPEN", drone |-> Nil,
                                        order |-> Len(orders')])
               /\ Cardinality({j \in 1..Len(jobs') : jobs'[j].order = Len(orders')}) = 1
               /\ UNCHANGED drones
          ELSE UNCHANGED db
     /\ \A o \in 1..Len(orders') : \E j \in 1..Len(jobs') : jobs'[j].order = o]_vars

\* a call has committed a PENDING order and the one OPEN, unbound job of that order
C28_CreatedWithJob ==
  /\ last.op = "Create" /\ last.outcome = "ok"
  /\ orders[last.order].status = "PENDING"
  /\ JobsOf(last.order) = {last.job}
  /\ jobs[last.job].status = "OPEN" /\ jobs[last.job].drone = Nil

\* a method of the drone (job) aggregate has been called in this step
DroneCalled(method) == agg' # agg /\ agg'.kind = "drone" /\ agg'.method = method
JobCalled(method) == agg' # agg /\ agg'.kind = "job" /\ agg'.method = method

\* C29: the Drone state machine.  Reserve succeeds only from IDLE (to EN_ROUTE_PICKUP,
\* with the order as current order), StartDelivery only from EN_ROUTE_PICKUP, MarkFixed
\* only from BROKEN (to IDLE).  MarkBroken succeeds from every status but BROKEN,
\* returns an event with the drone's coordinate and the order it carried (or none) and
\* clears the current order; on a BROKEN drone it returns Conflict and no event.
\* GoIdle always ends IDLE without a current order.  A failing call leaves status and
\* current order as they were.
C29_DroneMachine ==
  [][LET b == agg'.before
         a == agg'.after
         e == agg'.err IN
     /\ DroneCalled("Reserve") =>
          IF b.status = "IDLE"
          THEN e = "" /\ a.status = "EN_ROUTE_PICKUP" /\ a.order = agg'.arg
          ELSE e # ""
     /\ DroneCalled("StartDelivery") =>
          IF b.status = "EN_ROUTE_PICKUP"
          THEN e = "" /\ a.status = "EN_ROUTE_DELIVERY" /\ a.order = b.order
          ELSE e # ""
     /\ DroneCalled("MarkFixed") =>
          IF b.status = "BROKEN" THEN e = "" /\ a.status = "IDLE" ELSE e # ""
     /\ DroneCalled("MarkBroken") =>
          IF b.status # "BROKEN"
          THEN /\ e = "" /\ a.status = "BROKEN" /\ a.order = NoOrderID
               /\ agg'.event = [location |-> b.loc, order |-> b.order]
          ELSE e = ErrConflict /\ agg'.event = NoEvent
     /\ DroneCalled("GoIdle") => e = "" /\ a.status = "IDLE" /\ a.order = NoOrderID
     /\ (agg' # agg /\ agg'.kind = "drone" /\ e # "") => a = b]_vars

\* a drone on its way with an order was marked broken: the event holds the order and
\* the coordinate, the drone holds no order
C29_BrokenWithOrder ==
  /\ agg.kind = "drone" /\ agg.method = "MarkBroken" /\ agg.err = ""
  /\ agg.before.status = "EN_ROUTE_DELIVERY"
  /\ agg.event.order = agg.before.order /\ agg.event.order # NoOrderID
  /\ agg.event.location = agg.before.loc
  /\ agg.after.status = "BROKEN" /\ agg.after.order = NoOrderID

\* C30: the Job state machine.  Reserve succeeds only from OPEN and returns Conflict
\* (not InvalidTransition) otherwise; Complete succeeds only from RESERVED and returns
\* InvalidTransition otherwise; Cancel succeeds from OPEN and RESERVED and clears the
\* binding, and fails from COMPLETED and CANCELLED, which no method leaves.  A failing
\* call leaves status and binding as they were.
C30_JobMachine ==
  [][LET b == agg'.before
         a == agg'.after
         e == agg'.err IN
     /\ JobCalled("Reserve") =>
          IF b.status = "OPEN"
          THEN e = "" /\ a.status = "RESERVED" /\ a.drone = agg'.arg
          ELSE e = ErrConflict
     /\ JobCalled("Complete") =>
          IF b.status = "RESERVED" THEN e = "" /\ a.status = "COMPLETED"
          ELSE e = ErrInvalidTransition
     /\ JobCalled("Cancel") =>
          IF b.status \in {"OPEN", "RESERVED"}
          THEN e = "" /\ a.status = "CANCELLED" /\ a.drone = Nil
          ELSE e # ""
     /\ (agg' # agg /\ agg'.kind = "job") =>
          /\ b.status \in {"COMPLETED", "CANCELLED"} => a.status = b.status
          /\ e # "" => a = b]_vars

\* a RESERVED job was reserved again: Conflict, the job as it was
C30_ReserveTwice ==
  /\ agg.kind = "job" /\ agg.method = "Reserve" /\ agg.err = ErrConflict
  /\ agg.before.status = "RESERVED"
  /\ agg.before.drone # agg.arg
  /\ agg.after = agg.before

\* C31: a Heartbeat that runs alone creates an unknown drone IDLE without a current
\* order, leaves the status and the current order of a known drone as they are (it
\* writes the coordinate and the time of the heartbeat), writes no other row, and no
\* operation ever deletes a drone.
C31_HeartbeatFrame ==
  [][/\ \A p \in Workers :
          LET d == tx[p].drone IN
          /\ (tx[p].op = "Heartbeat" /\ tx[p].pc = "upsert" /\ tx'[p] # tx[p]) =>
               /\ drones[d] = NoDrone
               /\ drones' = [drones EXCEPT ![d] = [status |-> "IDLE", order |-> NoOrderID]]
          /\ (tx[p].op = "Heartbeat" /\ tx[p].pc = "update" /\ tx'[p] # tx[p]) =>
               /\ last'.op = "Heartbeat" /\ last'.outcome = "ok"
               /\ drones[d] # NoDrone
               /\ drones' = drones
          /\ (tx[p].op = "Heartbeat" \/ tx'[p].op = "Heartbeat") => UNCHANGED <<orders, jobs>>
     /\ \A d \in Drones : drones[d] # NoDrone => drones'[d] # NoDrone]_vars

\* a heartbeat of a drone on its way to a pickup has returned: the drone is as it was
C31_BeatEnRoute ==
  /\ last.op = "Heartbeat" /\ last.outcome = "ok"
  /\ drones[last.drone].status = "EN_ROUTE_PICKUP"
  /\ drones[last.drone].order # NoOrderID

\* the place of a stage in the order rate limiter, role check, bulkhead, idempotency
Rank(s) ==
  CASE s = "ratelimit" -> 1
    [] s = "auth" -> 2
    [] s = "role" -> 3
    [] s = "bulkhead" -> 4
    [] s = "idempotency" -> 5
    [] s = "handler" -> 6

\* C32: the admission stages run in the order rate limiter, role check, bulkhead,
\* idempotency cache, and a request rejected at a stage reaches no later stage and not
\* the handler: a rate-limited or wrong-role request never takes a bulkhead slot, and
\* a request the bulkhead rejects neither reads nor writes the idempotency cache.
C32_StageOrder ==
  \A c \in Passers :
    LET v == chain[c] IN
    /\ \A a, b \in 1..Len(v.seen) : a < b => Rank(v.seen[a]) < Rank(v.seen[b])
    /\ v.status \in {StatusTooManyRequests, StatusForbidden} =>
         v.slots = 0 /\ v.reads = 0 /\ v.writes = 0
    /\ v.status = StatusServiceUnavailable => v.reads = 0 /\ v.writes = 0
    /\ v.status = StatusTooManyRequests => v.seen[Len(v.seen)] = "ratelimit"
    /\ v.status = StatusForbidden => v.seen[Len(v.seen)] = "role"
    /\ v.status = StatusServiceUnavailable => v.seen[Len(v.seen)] = "bulkhead"

\* the bulkhead is full, one request was turned away by it, another by the role
\* check, and a request is at the handler
C32_RejectedAtEachStage ==
  /\ \E c \in Passers : chain[c].status = StatusServiceUnavailable
  /\ \E c \in Passers : chain[c].status = StatusForbidden \/ chain[c].status = StatusTooManyRequests
  /\ \E c \in Passers : AtStage(c, "handler") /\ chain[c].reads = 1

\* C33: only the owner can cancel.  A CancelOrderAndJob requested by an identity that
\* is not the submitter of the order returns Forbidden and changes neither the status
\* of the order nor its submitter nor its jobs.
C33_OwnerOnlyCancel ==
  [][\A p \in Workers :
       (/\ tx[p].op = "Cancel" /\ tx'[p].pc = "idle"
        /\ tx[p].order \in 1..Len(orders)
        /\ orders[tx[p].order].owner # tx[p].user)
         => /\ last'.outcome = ErrForbidden
            /\ UNCHANGED <<orders, jobs>>]_vars

\* the codes of the answers present: of the breaker's rejections, of the
\* bulkhead's, of the rate limiter's
CircuitCodes ==
  {req[p].body.code : p \in {q \in Workers : /\ req[q].phase = "done" /\ ~req[q].ran
                                            /\ req[q].status = StatusServiceUnavailable}}
FullCodes ==
  {chain[c].code : c \in {d \in Passers : chain[d].status = StatusServiceUnavailable}}
LimitedCodes ==
  {chain[c].code : c \in {d \in Passers : chain[d].status = StatusTooManyRequests}}

\* C34: resilience rejections and domain errors never share a code.  The codes
\* answered for an open circuit, a full bulkhead and a rate-limited caller are
\* pairwise distinct, and none of them is a domain error code (NOT_FOUND,
\* INVALID_TRANSITION, CONFLICT, FORBIDDEN, VALIDATION, OUT_OF_ZONE, UNAUTHORIZED,
\* INTERNAL).
C34_DistinctCodes ==
  /\ CircuitCodes \cap (DomainCodes \union {CodeServiceUnavailable, CodeRateLimited}) = {}
  /\ FullCodes \cap (DomainCodes \union CircuitCodes \union LimitedCodes) = {}
  /\ LimitedCodes \cap (DomainCodes \union CircuitCodes) = {}
  /\ \A c \in Passers : chain[c].status = StatusBadRequest => chain[c].code \in DomainCodes

\* an open circuit, a full bulkhead and a rate limit have each rejected a request
C34_AllThreeRejected ==
  /\ CircuitCodes # {}
  /\ FullCodes # {}
  /\ LimitedCodes # {}

\* drone d is committed in status droneStatus with current order o
DroneCarries(d, o, droneStatus) == drones[d].status = droneStatus /\ drones[d].order = o
\* order o is committed in status orderStatus with d as its assigned drone
OrderCarriedBy(o, d, orderStatus) == orders[o].status = orderStatus /\ orders[o].drone = d

\* C35: cross-aggregate consistency.  In every committed state a drone is
\* EN_ROUTE_PICKUP with current order o exactly when order o is ASSIGNED with that
\* drone as its assigned drone, and EN_ROUTE_DELIVERY with current order o exactly
\* when order o is PICKED_UP with that drone; in particular no cancelled order is
\* the current order of a drone that is EN_ROUTE_PICKUP.
C35_CrossAggregate ==
  \A d \in Drones, o \in 1..Len(orders) :
    /\ DroneCarries(d, o, "EN_ROUTE_PICKUP") <=> OrderCarriedBy(o, d, "ASSIGNED")
    /\ DroneCarries(d, o, "EN_ROUTE_DELIVERY") <=> OrderCarriedBy(o, d, "PICKED_UP")

\* C36: a Heartbeat that interleaves with an orchestrated operation on the same
\* drone (ReserveJobAndAssign, GrabOrder, CompleteDelivery, HandleDroneBroken)
\* never undoes it.  The write of a Heartbeat to a drone row that exists leaves
\* the row's status and current order as they are committed, so that after both
\* calls the drone has the status and the order the orchestrated operation
\* committed.
C36_HeartbeatKeepsDrone ==
  [][\A p \in Workers :
       (/\ tx[p].op = "Heartbeat" /\ tx'[p] # tx[p]
        /\ tx[p].pc \in {"upsert", "update"}
        /\ drones[tx[p].drone] # NoDrone)
         => /\ drones'[tx[p].drone].status = drones[tx[p].drone].status
            /\ drones'[tx[p].drone].order = drones[tx[p].drone].order]_vars

\* C37: a breaker in HALF_OPEN always leaves HALF_OPEN when its probe finishes,
\* whatever the outcome (success, failing response, handler panic): it is CLOSED
\* or OPEN then, never left HALF_OPEN where allow() rejects every request, so
\* that after each cooldown a request is admitted again.
C37_ProbeLeavesHalfOpen ==
  [][\A p \in Workers :
       (req[p].phase = "admitted" /\ req[p].probe /\ req'[p].phase = "done")
         => breakers'[BreakerKey(req[p].route)].state # "HALF_OPEN"]_vars

\* C38: HandleDroneBroken on an existing drone that is not BROKEN always
\* succeeds and commits the drone BROKEN, whatever the status of the order the
\* drone references (a cancelled or already handed-off order included).
C38_BrokenAlwaysCommits ==
  [][\A p \in Workers :
       (/\ tx[p].op = "Broken" /\ tx'[p] = IdleTx
        /\ drones[tx[p].drone] # NoDrone
        /\ drones[tx[p].drone].status # "BROKEN")
         => /\ last'.outcome = "ok"
            /\ drones'[tx[p].drone].status = "BROKEN"]_vars

\* the requests of ip the limiter has evaluated, admitted or answered 429, and
\* those of them with a time in the window that ends at t
Evaluated(ip) == rl.admitted[ip] \cup rl.limited[ip]
EvaluatedIn(ip, t) == {e \in Evaluated(ip) : e.score > t - Window /\ e.score <= t}

\* C39: the rate limiter records every request it evaluates, rejected ones
\* included, so that rejected requests count toward the window.  A request that
\* is answered 429 is in the store when it leaves; and, when the store holds
\* entries of evaluated requests only, a request is admitted exactly when fewer
\* than MaxRequests earlier requests of its caller, admitted or rejected, lie in
\* the window that ends at its time: a caller that keeps the window full is not
\* admitted again.
C39_RejectedCount ==
  [][LET c == rl.calls[Solo]
         own == [score |-> c.at, member |-> c.member] IN
     (c.pc = "exec" /\ rl'.calls[Solo].pc = "done" /\ ~rl'.calls[Solo].err)
       => /\ rl'.calls[Solo].result = "limited" => own \in rl'.zset[c.ip]
          /\ rl.zset[c.ip] \ {own} \subseteq Evaluated(c.ip)
               => (rl'.calls[Solo].result = "next"
                     <=> Cardinality(EvaluatedIn(c.ip, c.at)) < MaxRequests)]_vars

\* a request was answered 429 while no admitted request of its caller lay in its
\* window: the rejected ones alone kept the window full
C39_KeptOutByRejected ==
  LET c == rl.calls[Solo] IN
  /\ c.pc = "done" /\ c.result = "limited"
  /\ AdmittedIn(c.ip, c.at) = {}
  /\ rl.limited[c.ip] \ {[score |-> c.at, member |-> c.member]} # {}

\* C40: idempotency entries are isolated per (caller, key) pair, also when
\* caller names or keys contain ':'.  Two different pairs have different store
\* keys, and a request that is answered from the store is answered with the
\* order its own caller placed: no caller receives a response stored for another
\* caller.
C40_EntriesIsolated ==
  /\ \A u \in Names, k \in HeaderKeys :
       (req[Solo].user \in Names /\ <<req[Solo].user, req[Solo].key>> # <<u, k>>)
         => idempotencyKey(req[Solo].user, req[Solo].key) # idempotencyKey(u, k)
  /\ (/\ req[Solo].phase = "done" /\ ~req[Solo].ran /\ req[Solo].status = StatusOK
      /\ req[Solo].body.order \in 1..Len(orders))
       => orders[req[Solo].body.order].owner = req[Solo].user

====
